---- MODULE Spec2Model ----
(***************************************************************************)
(* The music catalogue of spicy-music-backend: the Music collection, the   *)
(* handlers of controllers/musicController.ts that run against it, the     *)
(* router and the authenticate middleware that stand in front of them,    *)
(* and the user handlers of controllers/userController.ts.                 *)
(*                                                                         *)
(* Strings are sequences of one-character strings, so that the case        *)
(* folding, the substring/regex matching and the byte-order comparison of  *)
(* the store are computed and not assumed.  The empty sequence is both the *)
(* empty string and an absent query parameter: the handlers test           *)
(* parameters with `if (artist)`, which treats the two alike.              *)
(***************************************************************************)
EXTENDS Integers, Sequences, FiniteSets, TLC

VARIABLES music, nextId, deleted, res, req, users

\* process.env.NODE_ENV, read when the server starts and never written.
VARIABLE nodeEnv

\* The pages a client has collected of one listing.
VARIABLE pages

\* The requests in flight whose handlers are followed await by await.
VARIABLE calls

\* The Song and Playlist collections (models/Song.ts, models/Playlist.ts).
VARIABLES songs, playlists

\* What the music and user routers of Spec leave alone.
aside == <<nodeEnv, pages, calls, songs, playlists>>

vars == <<music, nextId, deleted, res, req, users, aside>>

(* Bounds of the model *)
MaxIds == 2

----------------------------------------------------------------------------
(* Characters and strings *)

Chars == {" ", "-", ".", "0", "1", "2", "@", "A", "B", "C", "M", "P", "R", "X", "_",
          "a", "b", "c", "k", "m", "o", "p", "q", "r", "x"}

\* Code unit of a character: the store's default (binary) collation and
\* JavaScript compare strings by code unit.
Code(c) ==
  CASE c = " " -> 32  [] c = "-" -> 45  [] c = "." -> 46  [] c = "0" -> 48
    [] c = "1" -> 49  [] c = "2" -> 50  [] c = "@" -> 64  [] c = "_" -> 95
    [] c = "A" -> 65  [] c = "B" -> 66  [] c = "C" -> 67  [] c = "M" -> 77
    [] c = "P" -> 80  [] c = "R" -> 82  [] c = "X" -> 88
    [] c = "a" -> 97  [] c = "b" -> 98  [] c = "c" -> 99  [] c = "k" -> 107
    [] c = "m" -> 109 [] c = "o" -> 111 [] c = "p" -> 112 [] c = "q" -> 113
    [] c = "r" -> 114 [] c = "x" -> 120

ToLowerChar(c) ==
  IF Code(c) >= 65 /\ Code(c) =< 90
    THEN CHOOSE d \in Chars : Code(d) = Code(c) + 32
    ELSE c

\* $toLower of the aggregation pipeline, and the folding of the 'i' option.
ToLower(s) == [i \in 1..Len(s) |-> ToLowerChar(s[i])]

Min(a, b) == IF a < b THEN a ELSE b

\* Binary string order: a sorts strictly before b.
StrLess(a, b) ==
  \E k \in 1..(Min(Len(a), Len(b)) + 1) :
    /\ \A j \in 1..(k - 1) : a[j] = b[j]
    /\ IF k > Len(a) THEN k =< Len(b)
       ELSE k =< Len(b) /\ Code(a[k]) < Code(b[k])

StrLeq(a, b) == a = b \/ StrLess(a, b)

RECURSIVE TrimLeft(_)
TrimLeft(s) ==
  IF s # <<>> /\ Head(s) = " " THEN TrimLeft(Tail(s)) ELSE s

RECURSIVE TrimRight(_)
TrimRight(s) ==
  IF s # <<>> /\ s[Len(s)] = " "
    THEN TrimRight(SubSeq(s, 1, Len(s) - 1)) ELSE s

Trim(s) == TrimRight(TrimLeft(s))

\* All arrangements of a finite set as a sequence without repetition.
SeqsOf(S) ==
  {s \in [1..Cardinality(S) -> S] :
     \A i, j \in 1..Cardinality(S) : i # j => s[i] # s[j]}

Range(s) == {s[i] : i \in 1..Len(s)}

RECURSIVE SumSeq(_)
SumSeq(s) == IF s = <<>> THEN 0 ELSE Head(s) + SumSeq(Tail(s))

----------------------------------------------------------------------------
(* Request vocabulary *)

Rock == <<"R", "o", "c", "k">>
Pop == <<"P", "o", "p">>

\* multer's req.file: absent, or the stored path of the uploaded picture.
NoFile == "nofile"
Files == {"uploads/f1"}
CorsOrigin == "origin"
\* process.env.CORS_ORIGIN + "/" + req.file.path
AlbumArtOf(file) == <<CorsOrigin, "/", file>>

\* A text of n characters.
TextOfLen(n) == [i \in 1..n |-> "x"]

\* A request without a body.
NoBody == [title |-> <<>>, artist |-> <<>>, album |-> <<>>, genres |-> <<>>]

\* Two well-formed bodies, and bodies with a missing title, a title of
\* blanks and a title of 201 characters.
CreateBodies ==
  { [title |-> <<"A">>, artist |-> <<"X">>, album |-> <<"M", "1">>,
     genres |-> <<Rock>>],
    [title |-> <<"B">>, artist |-> <<"a", "X">>, album |-> <<"M", "1">>,
     genres |-> <<Rock, Pop>>],
    [title |-> <<>>, artist |-> <<"X">>, album |-> <<"M", "1">>,
     genres |-> <<Rock>>],
    [title |-> <<" ">>, artist |-> <<"X">>, album |-> <<"M", "1">>,
     genres |-> <<Rock>>],
    [title |-> TextOfLen(201), artist |-> <<"X">>, album |-> <<"M", "1">>,
     genres |-> <<Rock>>] }

\* A well-formed partial body, and bodies with an empty genre, an artist
\* of 101 characters and a title of blanks.
UpdateBodies ==
  { [title |-> <<>>, artist |-> <<"X">>, album |-> <<"b">>, genres |-> <<>>],
    [title |-> <<>>, artist |-> <<>>, album |-> <<>>, genres |-> <<<<>>>>],
    [title |-> <<>>, artist |-> TextOfLen(101), album |-> <<>>,
     genres |-> <<>>],
    [title |-> <<" ">>, artist |-> <<>>, album |-> <<>>, genres |-> <<>>] }

Ids == 1..MaxIds

SearchParams == {<<>>, <<"q", " ", "x">>}
ArtistParams == {<<>>, <<"A">>}
AlbumParams == {<<>>, <<"m", ".">>}
GenreParams == {<<>>, <<"p", "o", "p">>}
SortParams ==
  { [sortBy |-> "", sortOrder |-> ""],
    [sortBy |-> "title", sortOrder |-> "asc"] }

\* req.query.page and req.query.limit as they arrive, text or absent:
\* small numerals, and the values the fallback is about (absent, zero,
\* text that is no number, a negative number).
NumeralParams == {<<"1">>, <<"2">>}
PagingParams ==
  [page : NumeralParams, limit : NumeralParams]
    \cup { [page |-> <<>>, limit |-> <<>>],
           [page |-> <<"0">>, limit |-> <<"0">>],
           [page |-> <<"x">>, limit |-> <<"x">>],
           [page |-> <<"-", "1">>, limit |-> <<>>] }

\* The filters and sorts are combined with the numerals; the other paging
\* values come with the plain listing.
Queries ==
  { [search |-> s, artist |-> a, album |-> b, genre |-> g,
     sortBy |-> so.sortBy, sortOrder |-> so.sortOrder,
     page |-> pg.page, limit |-> pg.limit] :
      s \in SearchParams, a \in ArtistParams, b \in AlbumParams,
      g \in GenreParams, so \in SortParams,
      pg \in [page : NumeralParams, limit : NumeralParams] }
    \cup { [search |-> <<>>, artist |-> <<>>, album |-> <<>>, genre |-> <<>>,
            sortBy |-> "", sortOrder |-> "",
            page |-> pg.page, limit |-> pg.limit] : pg \in PagingParams }

SearchQueries ==
  { [q |-> q, page |-> pg.page, limit |-> pg.limit] :
      q \in SearchParams, pg \in PagingParams }

\* parseInt(string): an optional sign and the longest run of decimal digits
\* at the start of the text; NaN when there is no digit there, as for an
\* absent parameter.
IsDigit(c) == Code(c) >= 48 /\ Code(c) =< 57

RECURSIVE DigitsValue(_, _)
DigitsValue(s, acc) ==
  IF s = <<>> \/ ~IsDigit(Head(s)) THEN acc
  ELSE DigitsValue(Tail(s), 10 * acc + (Code(Head(s)) - 48))

ParseInt(s) ==
  LET t == TrimLeft(s)
      neg == t # <<>> /\ Head(t) = "-"
      d == IF neg THEN Tail(t) ELSE t
  IN IF d = <<>> \/ ~IsDigit(Head(d))
       THEN [nan |-> TRUE, value |-> 0]
       ELSE [nan |-> FALSE,
             value |-> IF neg THEN 0 - DigitsValue(d, 0)
                       ELSE DigitsValue(d, 0)]

\* parseInt(x) || d: NaN and 0 are falsy, every other number is kept.
DefaultPage == 1
DefaultLimit == 10
OrDefault(n, d) == IF n.nan \/ n.value = 0 THEN d ELSE n.value
PageOf(q) == OrDefault(ParseInt(q.page), DefaultPage)
LimitOf(q) == OrDefault(ParseInt(q.limit), DefaultLimit)

----------------------------------------------------------------------------
(* Request validation (middleware/validation.ts) *)

MaxTitleLen == 200
MaxNameLen == 100

\* The custom validator of body('genres'); an absent value is wrapped into
\* [undefined] and fails the every(...) test like an empty string does.
GenresErrors(genres) ==
  IF genres = <<>> \/ \E i \in 1..Len(genres) : Trim(genres[i]) = <<>>
    THEN <<"All genres must be non-empty strings">>
    ELSE <<>>

ValidateCreateMusic(body) ==
     (IF body.title = <<>> THEN <<"Title is required">> ELSE <<>>)
  \o (IF Len(body.title) > MaxTitleLen
        THEN <<"Title cannot exceed 200 characters">> ELSE <<>>)
  \o (IF body.artist = <<>> THEN <<"Artist is required">> ELSE <<>>)
  \o (IF Len(body.artist) > MaxNameLen
        THEN <<"Artist name cannot exceed 100 characters">> ELSE <<>>)
  \o (IF body.album = <<>> THEN <<"Album is required">> ELSE <<>>)
  \o (IF Len(body.album) > MaxNameLen
        THEN <<"Album name cannot exceed 100 characters">> ELSE <<>>)
  \o GenresErrors(body.genres)

\* Every field is optional(): an absent field is skipped.
ValidateUpdateMusic(body) ==
     (IF Len(body.title) > MaxTitleLen
        THEN <<"Title cannot exceed 200 characters">> ELSE <<>>)
  \o (IF Len(body.artist) > MaxNameLen
        THEN <<"Artist name cannot exceed 100 characters">> ELSE <<>>)
  \o (IF Len(body.album) > MaxNameLen
        THEN <<"Album name cannot exceed 100 characters">> ELSE <<>>)
  \o (IF body.genres = <<>> THEN <<>> ELSE GenresErrors(body.genres))

----------------------------------------------------------------------------
(* The Music collection (models/Music.ts) *)

\* The document as the store returns it.
Doc(m, id) ==
  [_id |-> id, title |-> m[id].title, artist |-> m[id].artist,
   album |-> m[id].album, albumArt |-> m[id].albumArt,
   genres |-> m[id].genres, createdAt |-> m[id].createdAt]

\* new Music({...}).save(): the schema trims title, artist and album, and
\* timestamps sets createdAt; the creation clock is the id counter.
NewMusic(body, albumArt, now) ==
  [title |-> Trim(body.title), artist |-> Trim(body.artist),
   album |-> Trim(body.album), albumArt |-> albumArt,
   genres |-> body.genres, createdAt |-> now]

\* The validators of musicSchema on a text path after trim: required and
\* maxlength.
PathValid(value, max) == value # <<>> /\ Len(value) =< max

\* document.validate() before an insert: every path of the schema.
SchemaValid(rec) ==
  /\ PathValid(rec.title, MaxTitleLen)
  /\ PathValid(rec.artist, MaxNameLen)
  /\ PathValid(rec.album, MaxNameLen)
  /\ rec.albumArt # <<>>
  /\ Len(rec.genres) > 0

\* runValidators: true on an update: the paths the update sets, and only
\* those.
UpdateValid(body) ==
  /\ body.title # <<>> => PathValid(Trim(body.title), MaxTitleLen)
  /\ body.artist # <<>> => PathValid(Trim(body.artist), MaxNameLen)
  /\ body.album # <<>> => PathValid(Trim(body.album), MaxNameLen)

Save(m, id, rec) == m @@ (id :> rec)

\* Mutant of ApplyUpdate: the genres key is $set even when the request
\* did not supply it, and an absent value is cast to the empty array.
ApplyUpdateSetsGenres(rec, body, file) ==
  [title |-> IF body.title = <<>> THEN rec.title ELSE Trim(body.title),
   artist |-> IF body.artist = <<>> THEN rec.artist ELSE Trim(body.artist),
   album |-> IF body.album = <<>> THEN rec.album ELSE Trim(body.album),
   albumArt |-> IF file = NoFile THEN rec.albumArt ELSE AlbumArtOf(file),
   genres |-> body.genres,
   createdAt |-> rec.createdAt]

\* Mutant of ApplyUpdate: the albumArt key is $set from req.file even when
\* no file was uploaded.
ApplyUpdateSetsAlbumArt(rec, body, file) ==
  [title |-> IF body.title = <<>> THEN rec.title ELSE Trim(body.title),
   artist |-> IF body.artist = <<>> THEN rec.artist ELSE Trim(body.artist),
   album |-> IF body.album = <<>> THEN rec.album ELSE Trim(body.album),
   albumArt |-> AlbumArtOf(file),
   genres |-> IF body.genres = <<>> THEN rec.genres ELSE body.genres,
   createdAt |-> rec.createdAt]

\* findByIdAndUpdate(id, updateData): keys whose value is undefined are
\* dropped from the update, the others are $set.
ApplyUpdate(rec, body, file) ==
  [title |-> IF body.title = <<>> THEN rec.title ELSE Trim(body.title),
   artist |-> IF body.artist = <<>> THEN rec.artist ELSE Trim(body.artist),
   album |-> IF body.album = <<>> THEN rec.album ELSE Trim(body.album),
   albumArt |-> IF file = NoFile THEN rec.albumArt ELSE AlbumArtOf(file),
   genres |-> IF body.genres = <<>> THEN rec.genres ELSE body.genres,
   createdAt |-> rec.createdAt]

FindByIdAndUpdate(m, id, body, file) ==
  [m EXCEPT ![id] = ApplyUpdate(m[id], body, file)]

\* Mutant of FindByIdAndDelete: the document is found but not removed.
FindByIdAndDeleteKeeps(m, id) == m

FindByIdAndDelete(m, id) == [i \in DOMAIN m \ {id} |-> m[i]]

----------------------------------------------------------------------------
(* Filters of getMusic and searchMusic *)

\* { $regex: pattern, $options: 'i' }: the pattern is a regular expression,
\* unanchored; of its syntax the model has literals and '.', any character.
RegexMatch(pattern, s) ==
  \E start \in 0..(Len(s) - Len(pattern)) :
    \A j \in 1..Len(pattern) :
      \/ pattern[j] = "."
      \/ ToLowerChar(pattern[j]) = ToLowerChar(s[start + j])

\* The words of a string as the text index sees them: maximal runs of
\* non-blank characters, case folded (stemming and stop words left out).
Tokens(s) ==
  { ToLower(SubSeq(s, p[1], p[2])) :
      p \in { p \in (1..Len(s)) \X (1..Len(s)) :
                /\ p[1] =< p[2]
                /\ \A k \in p[1]..p[2] : s[k] # " "
                /\ (p[1] = 1 \/ s[p[1] - 1] = " ")
                /\ (p[2] = Len(s) \/ s[p[2] + 1] = " ") } }

\* { $text: { $search } } over the text index on title, artist and album:
\* some word of the search string is a word of one of the three fields.
TextMatch(search, rec) ==
  Tokens(search) \cap
    (Tokens(rec.title) \cup Tokens(rec.artist) \cup Tokens(rec.album)) # {}

\* The filter object getMusic builds: a key is attached when its parameter
\* is truthy; <<>> stands for a key that was not attached.
BuildFilter(q) ==
  [text |-> q.search, artist |-> q.artist, album |-> q.album,
   genres |-> q.genre]

\* Mutant of FilterMatches: a text search replaces the field filters.
FilterMatchesSearchOnly(f, rec) ==
  IF f.text # <<>> THEN TextMatch(f.text, rec)
  ELSE /\ f.artist # <<>> => RegexMatch(f.artist, rec.artist)
       /\ f.album # <<>> => RegexMatch(f.album, rec.album)
       /\ f.genres # <<>> =>
             \E i \in 1..Len(rec.genres) : RegexMatch(f.genres, rec.genres[i])

\* A document satisfies a filter object when it satisfies every key of it.
FilterMatches(f, rec) ==
  /\ f.text # <<>> => TextMatch(f.text, rec)
  /\ f.artist # <<>> => RegexMatch(f.artist, rec.artist)
  /\ f.album # <<>> => RegexMatch(f.album, rec.album)
  /\ f.genres # <<>> =>
        \E i \in 1..Len(rec.genres) : RegexMatch(f.genres, rec.genres[i])

MatchingIds(m, f) == {id \in DOMAIN m : FilterMatches(f, m[id])}

CountDocuments(m, f) == Cardinality(MatchingIds(m, f))

\* sort[sortBy] = sortOrder === 'desc' ? -1 : 1, sortBy defaulting to
\* createdAt and sortOrder to desc.  Before(a, b): a must precede b.
SortBefore(m, q, a, b) ==
  LET desc == (q.sortOrder = "" \/ q.sortOrder = "desc")
      lt(x, y) == IF q.sortBy = "title"
                    THEN StrLess(m[x].title, m[y].title)
                    ELSE m[x].createdAt < m[y].createdAt
  IN IF desc THEN lt(b, a) ELSE lt(a, b)

\* The orders the store may return for the sort: every arrangement in which
\* no document stands before one that must precede it (ties are free).
SortedFinds(m, q) ==
  LET S == MatchingIds(m, BuildFilter(q))
  IN {s \in SeqsOf(S) :
        \A i, j \in 1..Len(s) : i < j => ~SortBefore(m, q, s[j], s[i])}

\* .skip(skip).limit(limit)
Window(s, skip, limit) ==
  IF skip >= Len(s) THEN <<>>
  ELSE SubSeq(s, skip + 1, Min(skip + limit, Len(s)))

Skip(page, limit) == (page - 1) * limit

\* Mutant of Pages: the quotient rounded down.
PagesFloor(total, limit) == total \div limit

\* Math.ceil(total / limit)
Pages(total, limit) == (total + limit - 1) \div limit

Docs(m, ids) == [i \in 1..Len(ids) |-> Doc(m, ids[i])]

----------------------------------------------------------------------------
(* Aggregations of getMusicStatistics *)

DistinctArtists(m) == {m[id].artist : id \in DOMAIN m}
DistinctAlbums(m) == {m[id].album : id \in DOMAIN m}

\* Mutant of Unwind: only the first genre of a record is taken.
UnwindFirstOnly(m) == { <<id, 1>> : id \in DOMAIN m }

\* { $unwind: '$genres' }: one output document per element of genres,
\* named here by the record and the position of the element.
Unwind(m) ==
  UNION { {<<id, i>> : i \in 1..Len(m[id].genres)} : id \in DOMAIN m }

GenreAt(m, p) == m[p[1]].genres[p[2]]

UnwoundGenres(m) == {GenreAt(m, p) : p \in Unwind(m)}

\* Mutant of TotalGenres: the pairs are counted without the $group.
TotalGenresUngrouped(m) == Cardinality(Unwind(m))

\* $unwind, $group by genre, $count, then result[0]?.total || 0
TotalGenres(m) == Cardinality(UnwoundGenres(m))

\* { $group: { _id: '$genres', count: { $sum: 1 } } } after the $unwind
GenreCount(m, g) == Cardinality({p \in Unwind(m) : GenreAt(m, p) = g})

GenreGroups(m) ==
  { [_id |-> g, count |-> GenreCount(m, g)] : g \in UnwoundGenres(m) }

\* Mutant of SongsPerGenreResults: { $sort: { count: 1 } }.
SongsPerGenreAscending(m) ==
  {s \in SeqsOf(GenreGroups(m)) :
     \A i, j \in 1..Len(s) : i < j => s[i].count =< s[j].count}

\* { $sort: { count: -1 } }; groups of equal count come in any order.
SongsPerGenreResults(m) ==
  {s \in SeqsOf(GenreGroups(m)) :
     \A i, j \in 1..Len(s) : i < j => s[i].count >= s[j].count}

\* $group by artist with $sum and $addToSet, then the $project
ArtistAlbums(m, a) == {m[id].album : id \in {i \in DOMAIN m : m[i].artist = a}}

\* Mutant of ArtistSortKey: the name as stored.
ArtistSortKeyRaw(a) == a

ArtistSortKey(a) == ToLower(a)

ArtistGroups(m) ==
  { [_id |-> a, artist |-> a,
     songCount |-> Cardinality({id \in DOMAIN m : m[id].artist = a}),
     albums |-> ArtistAlbums(m, a),
     albumCount |-> Cardinality(ArtistAlbums(m, a)),
     artistLower |-> ArtistSortKey(a)] : a \in DistinctArtists(m) }

\* { $sort: { artistLower: 1 } }
ArtistStatsResults(m) ==
  {s \in SeqsOf(ArtistGroups(m)) :
     \A i, j \in 1..Len(s) :
       i < j => StrLeq(s[i].artistLower, s[j].artistLower)}

\* Mutant of AlbumKeys: $group by album alone, keeping one artist of it.
AlbumKeysByAlbum(m) ==
  { [artist |-> m[CHOOSE id \in DOMAIN m : m[id].album = b].artist,
     album |-> b] : b \in DistinctAlbums(m) }

\* $group by { artist, album }, then the $project
AlbumKeys(m) ==
  { [artist |-> m[id].artist, album |-> m[id].album] : id \in DOMAIN m }

\* Mutant of AlbumSortKey: the name as stored.
AlbumSortKeyRaw(k) == k.album

AlbumSortKey(k) == ToLower(k.album)

AlbumGroups(m) ==
  { [_id |-> k, artist |-> k.artist, album |-> k.album,
     songCount |-> Cardinality({id \in DOMAIN m :
                      m[id].artist = k.artist /\ m[id].album = k.album}),
     albumLower |-> AlbumSortKey(k)] : k \in AlbumKeys(m) }

\* { $sort: { albumLower: 1 } }
AlbumStatsResults(m) ==
  {s \in SeqsOf(AlbumGroups(m)) :
     \A i, j \in 1..Len(s) :
       i < j => StrLeq(s[i].albumLower, s[j].albumLower)}

Totals(m) ==
  [songs |-> Cardinality(DOMAIN m),
   artists |-> Cardinality(DistinctArtists(m)),
   albums |-> Cardinality(DistinctAlbums(m)),
   genres |-> TotalGenres(m)]

----------------------------------------------------------------------------
(* Responses *)

NodeEnvs == {"development", "production", "test", ""}

\* No page collected, no request in flight, no song and no playlist.
NoPages == [store |-> <<>>, q |-> <<>>, got |-> <<>>]
Apart == pages = NoPages /\ calls = <<>> /\ songs = <<>> /\ playlists = <<>>

\* Mutant of ErrorHandler: the stack is sent in every mode.
ErrorHandlerAlwaysStack(op, msg) ==
  [op |-> op, status |-> 500, success |-> FALSE, message |-> msg,
   error |-> "stack"]

\* The global error handler of server.ts, reached through next(error); the
\* spread adds the stack when NODE_ENV is 'development'.
ErrorHandler(op, msg) ==
  IF nodeEnv = "development"
    THEN [op |-> op, status |-> 500, success |-> FALSE, message |-> msg,
          error |-> "stack"]
    ELSE [op |-> op, status |-> 500, success |-> FALSE, message |-> msg]

\* Mutant of ValidationFailed: the messages are sent as the data of the
\* response.
ValidationFailedWithData(op, errs) ==
  [op |-> op, status |-> 400, success |-> FALSE,
   message |-> "Validation failed", error |-> errs[1], data |-> errs]

ValidationFailed(op, errs) ==
  [op |-> op, status |-> 400, success |-> FALSE,
   message |-> "Validation failed", error |-> errs[1]]

\* Mutant of NotFound: the answer is shaped like an empty listing.
NotFoundWithCount(op, id) ==
  [op |-> op, id |-> id, status |-> 404, success |-> FALSE,
   message |-> "Music not found", count |-> 0, total |-> 0]

NotFound(op, id) ==
  [op |-> op, id |-> id, status |-> 404, success |-> FALSE,
   message |-> "Music not found"]

\* The 401 of authenticate.
Unauthorized(msg) ==
  [op |-> "authenticate", status |-> 401, success |-> FALSE, message |-> msg]

\* A store operation that rejects: the handler's catch hands the error to
\* the error handler.
StoreFailed(op) == ErrorHandler(op, "store failure")

\* The :id of the path is cast to an ObjectId when the query is built; a
\* text that spells none makes the query reject with a CastError.
IsObjectId(path) == path.oid # 0

CastError(op, id) ==
  [id |-> id] @@ ErrorHandler(op, "Cast to ObjectId failed")

\* A find of a listing that rejects: the catch hands the error to the
\* error handler.
ListingFailed(op, q, msg) == [req |-> q] @@ ErrorHandler(op, msg)

\* The store rejects a find whose skip is negative.
SkipRejected(op, q) == ListingFailed(op, q, "skip must be non-negative")

\* The data.music object of the create, get-by-id and update responses.
MusicView(m, id) ==
  [music |-> [id |-> id, title |-> m[id].title, artist |-> m[id].artist,
              album |-> m[id].album, albumArt |-> m[id].albumArt,
              genres |-> m[id].genres, createdAt |-> m[id].createdAt]]

----------------------------------------------------------------------------
(* Requests, the music router and authenticate                             *)
(* (routers/musicRouter.ts, middleware/auth.ts)                            *)

\* The path of a request below the router's mount point: the mount point
\* itself or one segment.  oid is the ObjectId a segment spells, 0 when it
\* spells none ("search", "statistics", "abc").
Root == [text |-> "", oid |-> 0]
Segment(text) == [text |-> text, oid |-> 0]
IdPath(id) == [text |-> "oid", oid |-> id]
Paths ==
  {Root, Segment("search"), Segment("statistics"), Segment("abc")}
    \cup {IdPath(id) : id \in Ids}

\* The Authorization header: absent, or a bearer token that jwt.verify
\* accepts or rejects and that names a user id.
NoToken == [present |-> FALSE, verifies |-> FALSE, userId |-> 0]
BearerTokens ==
  {NoToken} \cup [present : {TRUE}, verifies : BOOLEAN, userId : {1, 2}]

Methods == {"POST", "GET", "PUT", "DELETE"}
Requests ==
  [mount : {"music"}, method : Methods, path : Paths, token : BearerTokens]

\* Mutant of MusicRoutes: the :id routes are declared before the literal
\* ones.
MusicRoutesIdFirst ==
  << [method |-> "POST", path |-> "", handler |-> "createMusic"],
     [method |-> "GET", path |-> "", handler |-> "getMusic"],
     [method |-> "GET", path |-> ":id", handler |-> "getMusicById"],
     [method |-> "PUT", path |-> ":id", handler |-> "updateMusic"],
     [method |-> "DELETE", path |-> ":id", handler |-> "deleteMusic"],
     [method |-> "GET", path |-> "search", handler |-> "searchMusic"],
     [method |-> "GET", path |-> "statistics",
      handler |-> "getMusicStatistics"] >>

\* The routes in the order of their declaration.
MusicRoutes ==
  << [method |-> "POST", path |-> "", handler |-> "createMusic"],
     [method |-> "GET", path |-> "", handler |-> "getMusic"],
     [method |-> "GET", path |-> "search", handler |-> "searchMusic"],
     [method |-> "GET", path |-> "statistics",
      handler |-> "getMusicStatistics"],
     [method |-> "GET", path |-> ":id", handler |-> "getMusicById"],
     [method |-> "PUT", path |-> ":id", handler |-> "updateMusic"],
     [method |-> "DELETE", path |-> ":id", handler |-> "deleteMusic"] >>

\* A route's path matches the mount point, a literal segment, or with :id
\* any one segment.
PathMatches(pattern, path) ==
  IF pattern = ":id" THEN path # Root
  ELSE path.text = pattern /\ path.oid = 0

\* Express hands the request to the first route that matches it.
Dispatch(method, path) ==
  LET hits == {i \in 1..Len(MusicRoutes) :
                 /\ MusicRoutes[i].method = method
                 /\ PathMatches(MusicRoutes[i].path, path)}
  IN IF hits = {} THEN "none"
     ELSE MusicRoutes[CHOOSE i \in hits : \A j \in hits : i =< j].handler

\* Mutant of Authenticate: a token that verifies is enough, the user it
\* names is not looked up.
AuthenticateSkipsUser(token, u) ==
  IF ~token.present THEN "Access denied. No token provided."
  ELSE IF ~token.verifies THEN "Invalid token"
  ELSE "next"

\* authenticate: the message of the 401 it answers, or "next" when it
\* calls next().
Authenticate(token, u) ==
  IF ~token.present THEN "Access denied. No token provided."
  ELSE IF ~token.verifies THEN "Invalid token"
  ELSE IF token.userId \notin DOMAIN u
    THEN "Token is no longer valid. User not found."
  ELSE "next"

----------------------------------------------------------------------------
(* Handlers.  Each runs to completion against one state of the store.   *)
(* res is the response object of the request being served; the router    *)
(* hands every request a fresh one.                                       *)

NoResponse == [op |-> "none"]

Idle == res = NoResponse

\* The request object a handler is given: what the router matched, the body
\* and the uploaded file the handler reads, and the store operation that
\* fails while the request is served ("none": the store answers them all).
Served(r, body, file, fault) ==
  [mount |-> r.mount, method |-> r.method, path |-> r.path,
   token |-> r.token, body |-> body, file |-> file, fault |-> fault]

NoRequest ==
  Served([mount |-> "", method |-> "", path |-> Root, token |-> NoToken],
         NoBody, NoFile, "none")

\* musicRouter.use(authenticate) and the route table: the handler is run
\* for a request that authenticate passed on and that its route matched
\* first.
Routed(r, handler) ==
  /\ Idle
  /\ Authenticate(r.token, users) = "next"
  /\ Dispatch(r.method, r.path) = handler
  /\ UNCHANGED <<users, aside>>

----------------------------------------------------------------------------
(* Users (routers/userRouter.ts, controllers/userController.ts)            *)

Email1 == <<"a", "@", "b", ".", "c", "o">>
Email2 == <<"x", "@", "b", ".", "c", "o">>
Name1 == <<"a", "b", "c">>

\* One body that registers, and one whose username is too short.
RegisterBodies ==
  { [email |-> Email1, username |-> Name1, password |-> TextOfLen(6)],
    [email |-> Email1, username |-> <<"a", "b">>,
     password |-> TextOfLen(6)] }

LoginBodies ==
  { [email |-> Email1, password |-> TextOfLen(6)],
    [email |-> Email1, password |-> TextOfLen(7)],
    [email |-> Email2, password |-> TextOfLen(6)],
    [email |-> <<"x">>, password |-> TextOfLen(6)] }

\* <<>> is an absent username.
ProfileBodies ==
  { [username |-> Name1], [username |-> <<"a", "b">>], [username |-> <<>>] }

\* No profile picture is uploaded: every one would double the states of
\* the catalogue.
ProfileFiles == {NoFile}

UserRoutes ==
  << [method |-> "POST", path |-> "register", handler |-> "register"],
     [method |-> "POST", path |-> "login", handler |-> "login"],
     [method |-> "GET", path |-> "profile", handler |-> "getProfile"],
     [method |-> "PUT", path |-> "profile", handler |-> "updateProfile"],
     [method |-> "POST", path |-> "logout", handler |-> "logout"] >>

\* The routes that name authenticate before their handler.
ProtectedUserHandlers == {"getProfile", "updateProfile", "logout"}

UserRequests ==
  [mount : {"users"}, method : {"POST", "GET", "PUT"},
   path : {Segment(UserRoutes[i].path) : i \in 1..Len(UserRoutes)},
   token : BearerTokens]

UserDispatch(method, path) ==
  LET hits == {i \in 1..Len(UserRoutes) :
                 /\ UserRoutes[i].method = method
                 /\ PathMatches(UserRoutes[i].path, path)}
  IN IF hits = {} THEN "none"
     ELSE UserRoutes[CHOOSE i \in hits : \A j \in hits : i =< j].handler

UserRouted(r, handler) ==
  /\ Idle
  /\ UserDispatch(r.method, r.path) = handler
  /\ handler \in ProtectedUserHandlers
       => Authenticate(r.token, users) = "next"
  /\ UNCHANGED <<music, nextId, deleted, aside>>

\* isEmail, of which the model has: one @, a local part, and a domain of
\* a label, a dot and a top-level label of two characters or more.
IsEmail(e) ==
  \E i \in 2..Len(e) :
    /\ e[i] = "@"
    /\ \A j \in 1..Len(e) : e[j] = "@" => j = i
    /\ \E k \in (i + 2)..(Len(e) - 2) : e[k] = "."

\* /^[a-zA-Z0-9_]+$/
IsWordChar(c) ==
  \/ Code(c) >= 48 /\ Code(c) =< 57
  \/ Code(c) >= 65 /\ Code(c) =< 90
  \/ Code(c) >= 97 /\ Code(c) =< 122
  \/ c = "_"

MinUsernameLen == 3
MaxUsernameLen == 30
MinPasswordLen == 6

UsernameErrors(username) ==
     (IF Len(username) < MinUsernameLen \/ Len(username) > MaxUsernameLen
        THEN <<"Username must be between 3 and 30 characters">> ELSE <<>>)
  \o (IF username = <<>> \/ \E i \in 1..Len(username) :
                              ~IsWordChar(username[i])
        THEN <<"Username can only contain letters, numbers, and underscores">>
        ELSE <<>>)

ValidateRegister(body) ==
     (IF IsEmail(body.email) THEN <<>>
        ELSE <<"Please provide a valid email">>)
  \o UsernameErrors(body.username)
  \o (IF Len(body.password) < MinPasswordLen
        THEN <<"Password must be at least 6 characters long">> ELSE <<>>)

ValidateLogin(body) ==
     (IF IsEmail(body.email) THEN <<>>
        ELSE <<"Please provide a valid email">>)
  \o (IF body.password = <<>> THEN <<"Password is required">> ELSE <<>>)

ValidateUpdateProfile(body) ==
  IF body.username = <<>> THEN <<>> ELSE UsernameErrors(body.username)

\* generateToken: a token that verifies and names the user.
GenerateToken(userId) ==
  [present |-> TRUE, verifies |-> TRUE, userId |-> userId]

\* The user object of the register and login responses.
UserView(u, id) ==
  [id |-> id, email |-> u[id].email, username |-> u[id].username]

\* The user object of the profile responses.
ProfileView(u, id) ==
  [id |-> id, email |-> u[id].email, username |-> u[id].username,
   profilePic |-> u[id].profilePic]

\* The hash the User model keeps for a password, and the comparison of
\* comparePassword.
HashPassword(password) == <<"hash">> \o password
ComparePassword(candidate, stored) == HashPassword(candidate) = stored

register ==
  \E r \in UserRequests :
    /\ UserRouted(r, "register")
    /\ \E body \in RegisterBodies :
      /\ req' = Served(r, body, NoFile, "none")
      /\ LET errs == ValidateRegister(body)
             email == ToLower(body.email)
             existing == {id \in DOMAIN users :
                            \/ users[id].email = email
                            \/ users[id].username = body.username}
             id == Cardinality(DOMAIN users) + 1
         IN
         IF errs # <<>>
           THEN /\ res' = ValidationFailed("register", errs)
                /\ UNCHANGED users
         ELSE IF existing # {}
           THEN /\ \E e \in existing :
                     res' = [op |-> "register", status |-> 409,
                             success |-> FALSE,
                             message |-> IF users[e].email = email
                                           THEN "Email already exists"
                                           ELSE "Username already exists"]
                /\ UNCHANGED users
         ELSE /\ users' = users @@
                   (id :> [email |-> email, username |-> body.username,
                           password |-> HashPassword(body.password),
                           profilePic |-> NoFile])
              /\ res' = [op |-> "register", status |-> 201, success |-> TRUE,
                         message |-> "User registered successfully",
                         data |-> [user |-> UserView(users', id),
                                   token |-> GenerateToken(id)]]

\* Mutant of LoginUnknownEmail: the answer says that no such user exists.
LoginUnknownEmailReveals ==
  [op |-> "login", status |-> 404, success |-> FALSE,
   message |-> "User not found"]

\* The answer of login when findOne({ email }) yields null.
LoginUnknownEmail ==
  [op |-> "login", status |-> 401, success |-> FALSE,
   message |-> "Invalid credentials"]

\* The answer of login when comparePassword yields false.
LoginWrongPassword ==
  [op |-> "login", status |-> 401, success |-> FALSE,
   message |-> "Invalid credentials"]

login ==
  \E r \in UserRequests :
    /\ UserRouted(r, "login")
    /\ \E body \in LoginBodies :
      /\ req' = Served(r, body, NoFile, "none")
      /\ LET errs == ValidateLogin(body)
             found == {id \in DOMAIN users :
                         users[id].email = ToLower(body.email)}
         IN
         IF errs # <<>> THEN res' = ValidationFailed("login", errs)
         ELSE IF found = {} THEN res' = LoginUnknownEmail
         ELSE \E id \in found :
           res' = IF ~ComparePassword(body.password, users[id].password)
                    THEN LoginWrongPassword
                    ELSE [op |-> "login", status |-> 200, success |-> TRUE,
                          message |-> "Login successful",
                          data |-> [user |-> ProfileView(users, id),
                                    token |-> GenerateToken(id)]]
      /\ UNCHANGED users

getProfile ==
  \E r \in UserRequests :
    /\ UserRouted(r, "getProfile")
    /\ req' = Served(r, NoBody, NoFile, "none")
    /\ res' = IF r.token.userId \notin DOMAIN users
                THEN [op |-> "getProfile", status |-> 404,
                      success |-> FALSE, message |-> "User not found"]
                ELSE [op |-> "getProfile", status |-> 200, success |-> TRUE,
                      message |-> "Profile retrieved successfully",
                      data |-> [user |-> ProfileView(users, r.token.userId)]]
    /\ UNCHANGED users

updateProfile ==
  \E r \in UserRequests :
    /\ UserRouted(r, "updateProfile")
    /\ \E body \in ProfileBodies, file \in ProfileFiles :
      /\ req' = Served(r, body, file, "none")
      /\ LET errs == ValidateUpdateProfile(body)
             id == r.token.userId
             existing == {o \in DOMAIN users \ {id} :
                            body.username # <<>>
                              /\ users[o].username = body.username}
         IN
         IF errs # <<>>
           THEN /\ res' = ValidationFailed("updateProfile", errs)
                /\ UNCHANGED users
         ELSE IF existing # {}
           THEN /\ res' = [op |-> "updateProfile", status |-> 409,
                           success |-> FALSE,
                           message |-> "Username already exists"]
                /\ UNCHANGED users
         ELSE IF id \notin DOMAIN users
           THEN /\ res' = [op |-> "updateProfile", status |-> 404,
                           success |-> FALSE, message |-> "User not found"]
                /\ UNCHANGED users
         ELSE /\ users' =
                   [users EXCEPT
                      ![id].username = IF body.username = <<>> THEN @
                                       ELSE body.username,
                      ![id].profilePic = IF file = NoFile THEN @ ELSE file]
              /\ res' = [op |-> "updateProfile", status |-> 200,
                         success |-> TRUE,
                         message |-> "Profile updated successfully",
                         data |-> [user |-> ProfileView(users', id)]]

logout ==
  \E r \in UserRequests :
    /\ UserRouted(r, "logout")
    /\ req' = Served(r, NoBody, NoFile, "none")
    /\ res' = [op |-> "logout", status |-> 200, success |-> TRUE,
               message |-> "Logout successful"]
    /\ UNCHANGED users

----------------------------------------------------------------------------
(* The handlers of the music router *)

Init ==
  /\ music = <<>>
  /\ nextId = 1
  /\ deleted = {}
  /\ res = NoResponse
  /\ req = NoRequest
  /\ users = <<>>
  /\ nodeEnv = "production"
  /\ Apart

\* authenticate answers 401 itself and the request goes no further.
authenticate ==
  /\ Idle
  /\ \E r \in Requests \cup UserRequests :
    /\ IF r.mount = "music" THEN Dispatch(r.method, r.path) # "none"
       ELSE UserDispatch(r.method, r.path) \in ProtectedUserHandlers
    /\ Authenticate(r.token, users) # "next"
    /\ req' = Served(r, NoBody, NoFile, "none")
    /\ res' = Unauthorized(Authenticate(r.token, users))
  /\ UNCHANGED <<music, nextId, deleted, users, aside>>

createMusic ==
  \E r \in Requests :
    /\ Routed(r, "createMusic")
    /\ \E body \in CreateBodies, file \in Files \cup {NoFile} :
      /\ req' = Served(r, body, file, "none")
      /\ LET errs == ValidateCreateMusic(body)
             doc == NewMusic(body, AlbumArtOf(file), nextId)
         IN
         IF errs # <<>>
           THEN /\ res' = ValidationFailed("createMusic", errs)
                /\ UNCHANGED <<music, nextId, deleted>>
         ELSE IF file = NoFile
           THEN /\ res' = ErrorHandler("createMusic",
                                       "Album art picture required")
                /\ UNCHANGED <<music, nextId, deleted>>
         ELSE IF ~SchemaValid(doc)
           THEN /\ res' = ErrorHandler("createMusic", "Music validation failed")
                /\ UNCHANGED <<music, nextId, deleted>>
         ELSE /\ nextId =< MaxIds
              /\ music' = Save(music, nextId, doc)
              /\ nextId' = nextId + 1
              /\ res' = [op |-> "createMusic", status |-> 201,
                         success |-> TRUE,
                         message |-> "Music created successfully",
                         data |-> MusicView(music', nextId)]
              /\ UNCHANGED deleted

getMusic ==
  \E r \in Requests :
    /\ Routed(r, "getMusic")
    /\ \E q \in Queries :
      /\ req' = Served(r, NoBody, NoFile, "none")
      /\ IF Skip(PageOf(q), LimitOf(q)) < 0
           THEN res' = SkipRejected("getMusic", q)
           ELSE \E sorted \in SortedFinds(music, q) :
             LET found == Window(sorted, Skip(PageOf(q), LimitOf(q)),
                                 LimitOf(q))
                 total == CountDocuments(music, BuildFilter(q))
             IN res' = [op |-> "getMusic", req |-> q, status |-> 200,
                        success |-> TRUE,
                        message |-> IF total > 0
                                      THEN "Music retrieved successfully"
                                      ELSE "No music found",
                        data |-> Docs(music, found), count |-> Len(found),
                        total |-> total, page |-> PageOf(q),
                        pages |-> Pages(total, LimitOf(q))]
      /\ UNCHANGED <<music, nextId, deleted>>

getMusicById ==
  \E r \in Requests :
    /\ Routed(r, "getMusicById")
    /\ req' = Served(r, NoBody, NoFile, "none")
    /\ LET id == r.path.oid IN
       res' = IF ~IsObjectId(r.path) THEN CastError("getMusicById", id)
              ELSE IF id \notin DOMAIN music
                THEN NotFound("getMusicById", id)
              ELSE [op |-> "getMusicById", id |-> id, status |-> 200,
                    success |-> TRUE,
                    message |-> "Music retrieved successfully",
                    data |-> MusicView(music, id)]
    /\ UNCHANGED <<music, nextId, deleted>>

updateMusic ==
  \E r \in Requests :
    /\ Routed(r, "updateMusic")
    /\ \E body \in UpdateBodies, file \in Files \cup {NoFile} :
      /\ req' = Served(r, body, file, "none")
      /\ LET errs == ValidateUpdateMusic(body)
             id == r.path.oid
         IN
         IF errs # <<>>
           THEN /\ res' = ValidationFailed("updateMusic", errs)
                /\ UNCHANGED <<music, nextId, deleted>>
         ELSE IF ~IsObjectId(r.path)
           THEN /\ res' = CastError("updateMusic", id)
                /\ UNCHANGED <<music, nextId, deleted>>
         ELSE IF ~UpdateValid(body)
           THEN /\ res' = ErrorHandler("updateMusic", "Validation failed")
                /\ UNCHANGED <<music, nextId, deleted>>
         ELSE IF id \notin DOMAIN music
           THEN /\ res' = NotFound("updateMusic", id)
                /\ UNCHANGED <<music, nextId, deleted>>
         ELSE /\ music' = FindByIdAndUpdate(music, id, body, file)
              /\ res' = [op |-> "updateMusic", id |-> id, status |-> 200,
                         success |-> TRUE,
                         message |-> "Music updated successfully",
                         data |-> MusicView(music', id)]
              /\ UNCHANGED <<nextId, deleted>>

deleteMusic ==
  \E r \in Requests :
    /\ Routed(r, "deleteMusic")
    /\ req' = Served(r, NoBody, NoFile, "none")
    /\ LET id == r.path.oid IN
       IF ~IsObjectId(r.path)
         THEN /\ res' = CastError("deleteMusic", id)
              /\ UNCHANGED <<music, nextId, deleted>>
       ELSE IF id \notin DOMAIN music
         THEN /\ res' = NotFound("deleteMusic", id)
              /\ UNCHANGED <<music, nextId, deleted>>
       ELSE /\ music' = FindByIdAndDelete(music, id)
            /\ deleted' = deleted \cup {id}
            /\ res' = [op |-> "deleteMusic", id |-> id, status |-> 200,
                       success |-> TRUE,
                       message |-> "Music deleted successfully"]
            /\ UNCHANGED nextId

\* The text score that orders the result is not modelled: the matching
\* documents come in any order.
searchMusic ==
  \E r \in Requests :
    /\ Routed(r, "searchMusic")
    /\ \E q \in SearchQueries, fault \in {"none", "find"} :
      /\ req' = Served(r, NoBody, NoFile, fault)
      /\ IF q.q = <<>>
           THEN res' = [op |-> "searchMusic", req |-> q, status |-> 400,
                        success |-> FALSE,
                        message |-> "Search query is required"]
         ELSE IF fault # "none"
           THEN res' = ListingFailed("searchMusic", q, "store failure")
         ELSE IF Skip(PageOf(q), LimitOf(q)) < 0
           THEN res' = SkipRejected("searchMusic", q)
         ELSE \E ranked \in SeqsOf(MatchingIds(music,
                         [text |-> q.q, artist |-> <<>>, album |-> <<>>,
                          genres |-> <<>>])) :
                LET found == Window(ranked, Skip(PageOf(q), LimitOf(q)),
                                    LimitOf(q))
                    total == Len(ranked)
                IN res' = [op |-> "searchMusic", req |-> q, status |-> 200,
                           success |-> TRUE,
                           message |-> "Search completed successfully",
                           data |-> Docs(music, found), count |-> Len(found),
                           total |-> total, page |-> PageOf(q),
                           pages |-> Pages(total, LimitOf(q))]
      /\ UNCHANGED <<music, nextId, deleted>>

\* The store operations of getMusicStatistics in the order it awaits them.
StatsOps ==
  <<"countDocuments", "distinctArtist", "distinctAlbum", "totalGenres",
    "songsPerGenre", "artistStats", "albumStats">>

\* Mutant of StatisticsResponse: a failing aggregation leaves its part of
\* the report out and the rest is sent.
StatisticsResponsePartial(fault, totals, spg, ast, alb) ==
  IF fault \in {"countDocuments", "distinctArtist", "distinctAlbum",
                "totalGenres"}
    THEN StoreFailed("getMusicStatistics")
    ELSE [op |-> "getMusicStatistics", status |-> 200, success |-> TRUE,
          message |-> "Music statistics retrieved successfully",
          data |-> IF fault = "songsPerGenre"
                     THEN [totals |-> totals, artistStats |-> ast,
                           albumStats |-> alb]
                   ELSE IF fault = "artistStats"
                     THEN [totals |-> totals, songsPerGenre |-> spg,
                           albumStats |-> alb]
                   ELSE IF fault = "albumStats"
                     THEN [totals |-> totals, songsPerGenre |-> spg,
                           artistStats |-> ast]
                   ELSE [totals |-> totals, songsPerGenre |-> spg,
                         artistStats |-> ast, albumStats |-> alb]]

\* The one try block of getMusicStatistics: a rejected await leaves it for
\* the catch, which hands the error on; the response is built after the
\* last await.
StatisticsResponse(fault, totals, spg, ast, alb) ==
  IF fault # "none"
    THEN StoreFailed("getMusicStatistics")
    ELSE [op |-> "getMusicStatistics", status |-> 200, success |-> TRUE,
          message |-> "Music statistics retrieved successfully",
          data |-> [totals |-> totals, songsPerGenre |-> spg,
                    artistStats |-> ast, albumStats |-> alb]]

\* Mutant of getMusicStatistics: the report is written back over the
\* collection the way an $out stage would.
getMusicStatisticsWrites ==
  \E r \in Requests :
    /\ Routed(r, "getMusicStatistics")
    /\ \E fault \in Range(StatsOps) \cup {"none"} :
      /\ req' = Served(r, NoBody, NoFile, fault)
      /\ \E spg \in SongsPerGenreResults(music),
            ast \in ArtistStatsResults(music),
            alb \in AlbumStatsResults(music) :
           res' = StatisticsResponse(fault, Totals(music), spg, ast, alb)
      /\ music' = <<>>
      /\ UNCHANGED <<nextId, deleted>>

getMusicStatistics ==
  \E r \in Requests :
    /\ Routed(r, "getMusicStatistics")
    /\ \E fault \in Range(StatsOps) \cup {"none"} :
      /\ req' = Served(r, NoBody, NoFile, fault)
      /\ \E spg \in SongsPerGenreResults(music),
            ast \in ArtistStatsResults(music),
            alb \in AlbumStatsResults(music) :
           res' = StatisticsResponse(fault, Totals(music), spg, ast, alb)
      /\ UNCHANGED <<music, nextId, deleted>>

\* The response has been sent; the exchange is over.
endRequest ==
  /\ ~Idle
  /\ res' = NoResponse
  /\ req' = NoRequest
  /\ UNCHANGED <<music, nextId, deleted, users, aside>>

Next ==
  \/ createMusic
  \/ getMusic
  \/ getMusicById
  \/ updateMusic
  \/ deleteMusic
  \/ searchMusic
  \/ getMusicStatistics
  \/ authenticate
  \/ register
  \/ login
  \/ getProfile
  \/ updateProfile
  \/ logout
  \/ endRequest

Spec == Init /\ [][Next]_vars

----------------------------------------------------------------------------
(* The server in each mode: the handlers whose store operations fail      *)

\* The server starts with NODE_ENV set to any mode, or not set at all.
EnvInit ==
  /\ music = <<>>
  /\ nextId = 1
  /\ deleted = {}
  /\ res = NoResponse
  /\ req = NoRequest
  /\ users = <<>>
  /\ nodeEnv \in NodeEnvs
  /\ Apart

EnvNext ==
  \/ register
  \/ createMusic
  \/ getMusicById
  \/ searchMusic
  \/ getMusicStatistics
  \/ endRequest

EnvSpec == EnvInit /\ [][EnvNext]_vars

----------------------------------------------------------------------------
(* A client that pages through a listing of getMusic                       *)

\* The listings the client reads: no filter, one record a page, in the
\* default order or by title.
ClientQueries ==
  {q \in Queries :
     /\ BuildFilter(q) =
          [text |-> <<>>, artist |-> <<>>, album |-> <<>>, genres |-> <<>>]
     /\ q.limit = <<"1">>}

\* The query of a page without its page number.
Listing(q) == [q EXCEPT !.page = <<>>]

\* The client takes the response of getMusic and keeps its page.  Pages of
\* one listing read from one state of the collection are kept together; a
\* page of another listing, or one read after a write, starts anew.
collectPage ==
  /\ res.op = "getMusic"
  /\ res.status = 200
  /\ res.req \in ClientQueries
  /\ LET page == res.page :> [i \in 1..Len(res.data) |-> res.data[i]._id]
     IN pages' = IF pages.store = music /\ pages.q = Listing(res.req)
                   THEN [pages EXCEPT !.got = page @@ @]
                   ELSE [store |-> music, q |-> Listing(res.req),
                         got |-> page]
  /\ res' = NoResponse
  /\ req' = NoRequest
  /\ UNCHANGED <<music, nextId, deleted, users, nodeEnv, calls, songs,
                 playlists>>

PagesNext ==
  \/ register
  \/ createMusic
  \/ getMusic
  \/ collectPage
  \/ endRequest

PagesSpec == Init /\ [][PagesNext]_vars

----------------------------------------------------------------------------
(* register and updateProfile await by await, several requests in flight  *)

\* The requests in flight at once.
MaxCalls == 2
Slots == 1..MaxCalls

Name2 == <<"a", "b", "x">>
UserEmails == {Email1, Email2}
Usernames == {Name1, Name2}

\* Mutant of IndexAllows: the collection has no unique index.
IndexAllowsAny(u, id, rec) == TRUE

\* The unique indexes of the users collection on email and on username:
\* the store takes the write of rec as user id only if no other user holds
\* its email or its username.
IndexAllows(u, id, rec) ==
  \A o \in DOMAIN u \ {id} :
    u[o].email # rec.email /\ u[o].username # rec.username

\* The write is rejected with E11000 and the catch hands the error on.
DuplicateKey(op) == ErrorHandler(op, "E11000 duplicate key error")

FreeSlot == CHOOSE c \in Slots \ DOMAIN calls :
              \A d \in Slots \ DOMAIN calls : c =< d

\* register up to its second await: the validation (every body here
\* passes it) and the findOne, answered by the store at this moment.
registerFindOne ==
  /\ Slots \ DOMAIN calls # {}
  /\ \E email \in UserEmails, username \in Usernames :
       LET body == [email |-> email, username |-> username,
                    password |-> TextOfLen(6)]
           existing == {id \in DOMAIN users :
                          \/ users[id].email = ToLower(email)
                          \/ users[id].username = username}
       IN IF existing # {}
            THEN \E e \in existing :
              calls' = calls @@
                (FreeSlot :>
                   [op |-> "register", body |-> body, userId |-> 0,
                    pc |-> "done",
                    res |-> [op |-> "register", status |-> 409,
                             success |-> FALSE,
                             message |->
                               IF users[e].email = ToLower(email)
                                 THEN "Email already exists"
                                 ELSE "Username already exists"]])
            ELSE calls' = calls @@
                (FreeSlot :>
                   [op |-> "register", body |-> body, userId |-> 0,
                    pc |-> "save", res |-> NoResponse])
  /\ UNCHANGED <<music, nextId, deleted, res, req, users, nodeEnv, pages,
                 songs, playlists>>

\* The save of register, answered by the store at this moment, and the
\* response.
registerSave ==
  \E c \in DOMAIN calls :
    /\ calls[c].pc = "save"
    /\ LET body == calls[c].body
           rec == [email |-> ToLower(body.email),
                   username |-> body.username,
                   password |-> HashPassword(body.password),
                   profilePic |-> NoFile]
           id == Cardinality(DOMAIN users) + 1
       IN IF IndexAllows(users, id, rec)
            THEN /\ users' = users @@ (id :> rec)
                 /\ calls' =
                      [calls EXCEPT
                         ![c].pc = "done",
                         ![c].res =
                           [op |-> "register", status |-> 201,
                            success |-> TRUE,
                            message |-> "User registered successfully",
                            data |-> [user |-> UserView(users', id),
                                      token |-> GenerateToken(id)]]]
            ELSE /\ users' = users
                 /\ calls' = [calls EXCEPT ![c].pc = "done",
                                           ![c].res = DuplicateKey("register")]
    /\ UNCHANGED <<music, nextId, deleted, res, req, nodeEnv, pages, songs,
                   playlists>>

\* updateProfile of an authenticated user up to its second await: the
\* validation and the findOne for another user of that username.
updateProfileFindOne ==
  /\ Slots \ DOMAIN calls # {}
  /\ \E userId \in DOMAIN users, username \in Usernames :
       LET existing == {o \in DOMAIN users \ {userId} :
                          users[o].username = username}
       IN calls' = calls @@
            (FreeSlot :>
               [op |-> "updateProfile", body |-> [username |-> username],
                userId |-> userId,
                pc |-> IF existing # {} THEN "done" ELSE "update",
                res |-> IF existing # {}
                          THEN [op |-> "updateProfile", status |-> 409,
                                success |-> FALSE,
                                message |-> "Username already exists"]
                          ELSE NoResponse])
  /\ UNCHANGED <<music, nextId, deleted, res, req, users, nodeEnv, pages,
                 songs, playlists>>

\* The findByIdAndUpdate of updateProfile and the response.
updateProfileUpdate ==
  \E c \in DOMAIN calls :
    /\ calls[c].pc = "update"
    /\ LET id == calls[c].userId
           rec == [users[id] EXCEPT !.username = calls[c].body.username]
       IN IF IndexAllows(users, id, rec)
            THEN /\ users' = [users EXCEPT ![id] = rec]
                 /\ calls' =
                      [calls EXCEPT
                         ![c].pc = "done",
                         ![c].res =
                           [op |-> "updateProfile", status |-> 200,
                            success |-> TRUE,
                            message |-> "Profile updated successfully",
                            data |-> [user |-> ProfileView(users', id)]]]
            ELSE /\ users' = users
                 /\ calls' =
                      [calls EXCEPT ![c].pc = "done",
                                    ![c].res = DuplicateKey("updateProfile")]
    /\ UNCHANGED <<music, nextId, deleted, res, req, nodeEnv, pages, songs,
                   playlists>>

\* The response of a request in flight has been sent.
endCall ==
  \E c \in DOMAIN calls :
    /\ calls[c].pc = "done"
    /\ calls' = [d \in DOMAIN calls \ {c} |-> calls[d]]
    /\ UNCHANGED <<music, nextId, deleted, res, req, users, nodeEnv, pages,
                   songs, playlists>>

UsersNext ==
  \/ registerFindOne
  \/ registerSave
  \/ updateProfileFindOne
  \/ updateProfileUpdate
  \/ endCall

UsersSpec == Init /\ [][UsersNext]_vars

----------------------------------------------------------------------------
(* getMusicStatistics await by await, with writes between its passes       *)

\* Mutant of StatsPass: distinct('artist') is answered with the albums.
StatsPassAlbumsForArtists(op, m) ==
  CASE op = "countDocuments" -> {Cardinality(DOMAIN m)}
    [] op = "distinctArtist" -> {DistinctAlbums(m)}
    [] op = "distinctAlbum" -> {DistinctAlbums(m)}
    [] op = "totalGenres" -> {TotalGenres(m)}
    [] op = "songsPerGenre" -> SongsPerGenreResults(m)
    [] op = "artistStats" -> ArtistStatsResults(m)
    [] op = "albumStats" -> AlbumStatsResults(m)

\* The answers the store may give to one store operation of the handler,
\* each computed on the collection as it is when the operation runs.
StatsPass(op, m) ==
  CASE op = "countDocuments" -> {Cardinality(DOMAIN m)}
    [] op = "distinctArtist" -> {DistinctArtists(m)}
    [] op = "distinctAlbum" -> {DistinctAlbums(m)}
    [] op = "totalGenres" -> {TotalGenres(m)}
    [] op = "songsPerGenre" -> SongsPerGenreResults(m)
    [] op = "artistStats" -> ArtistStatsResults(m)
    [] op = "albumStats" -> AlbumStatsResults(m)

\* The answers the request in flight has so far.
Gathered == IF calls = <<>> THEN <<>> ELSE calls[1].got

\* One await of a getMusicStatistics request that authenticate passed
\* on; the last one is followed by the response.
statisticsPass ==
  /\ Idle
  /\ \E result \in StatsPass(StatsOps[Len(Gathered) + 1], music) :
       IF Len(Gathered) + 1 < Len(StatsOps)
         THEN /\ calls' = <<[op |-> "getMusicStatistics",
                             got |-> Append(Gathered, result),
                             writes |-> IF calls = <<>> THEN 0
                                        ELSE calls[1].writes]>>
              /\ UNCHANGED res
         ELSE /\ calls' = <<>>
              /\ res' = StatisticsResponse("none",
                          [songs |-> Gathered[1],
                           artists |-> Cardinality(Gathered[2]),
                           albums |-> Cardinality(Gathered[3]),
                           genres |-> Gathered[4]],
                          Gathered[5], Gathered[6], result)
  /\ UNCHANGED <<music, nextId, deleted, req, users, nodeEnv, pages, songs,
                 playlists>>

\* At most MaxWrites writes of other requests land while one
\* getMusicStatistics request is between its first and its last await.
MaxWrites == 1

WriteLands ==
  /\ Idle
  /\ calls # <<>> => calls[1].writes < MaxWrites
  /\ calls' = IF calls = <<>> THEN calls
              ELSE <<[calls[1] EXCEPT !.writes = @ + 1]>>
  /\ UNCHANGED <<res, req, users, nodeEnv, pages, songs, playlists>>

\* The writes of other requests: the save of a createMusic, the
\* findByIdAndUpdate of an updateMusic and the findByIdAndDelete of a
\* deleteMusic that succeed.  Their responses are followed in Spec and
\* not kept here.
musicSaved ==
  /\ WriteLands
  /\ \E body \in CreateBodies, file \in Files :
       LET doc == NewMusic(body, AlbumArtOf(file), nextId)
       IN /\ ValidateCreateMusic(body) = <<>>
          /\ SchemaValid(doc)
          /\ nextId =< MaxIds
          /\ music' = Save(music, nextId, doc)
          /\ nextId' = nextId + 1
  /\ UNCHANGED deleted

musicUpdated ==
  /\ WriteLands
  /\ \E id \in DOMAIN music, body \in UpdateBodies, file \in Files \cup {NoFile} :
       /\ ValidateUpdateMusic(body) = <<>>
       /\ UpdateValid(body)
       /\ music' = FindByIdAndUpdate(music, id, body, file)
  /\ UNCHANGED <<nextId, deleted>>

musicDeleted ==
  /\ WriteLands
  /\ \E id \in DOMAIN music :
       /\ music' = FindByIdAndDelete(music, id)
       /\ deleted' = deleted \cup {id}
  /\ UNCHANGED nextId

StatsNext ==
  \/ statisticsPass
  \/ musicSaved
  \/ musicUpdated
  \/ musicDeleted
  \/ endRequest

StatsSpec == Init /\ [][StatsNext]_vars

----------------------------------------------------------------------------
(* The songs router (routes/songs.ts); GET /:id await by await             *)

MaxSongs == 1
SongIds == 1..MaxSongs

\* The plays a song is given.
MaxPlays == 2

\* new Song(req.body) with the defaults of the schema; the required
\* fields are in the body or the save is rejected.
SongBodies == {[title |-> <<"A">>], [title |-> <<>>]}
NewSong == [isActive |-> TRUE, playCount |-> 0]

\* The bodies of PUT /:id: with isActive, and without.
SongUpdates == {[isActive |-> TRUE], [isActive |-> FALSE], [title |-> <<"B">>]}

\* { isActive: true }, newest first, page 1 of 10
ActiveSongs(sg) == {id \in DOMAIN sg : sg[id].isActive}

RECURSIVE Descending(_)
Descending(S) ==
  IF S = {} THEN <<>>
  ELSE LET top == CHOOSE x \in S : \A y \in S : y =< x
       IN <<top>> \o Descending(S \ {top})

\* Mutant of SaveModified: save writes the document as it was read.
SaveWhole(stored, doc) == doc

\* document.save(): the update $sets the modified paths, here playCount,
\* and leaves the other fields of the stored document alone.
SaveModified(stored, doc) == [stored EXCEPT !.playCount = doc.playCount]

\* POST /
createSong ==
  /\ Idle
  /\ \E body \in SongBodies :
       IF body.title = <<>>
         THEN /\ res' = [op |-> "createSong", status |-> 400,
                         success |-> FALSE,
                         message |-> "Error creating song",
                         error |-> "Path title is required."]
              /\ songs' = songs
         ELSE /\ Len(songs) < MaxSongs
              /\ songs' = Append(songs, NewSong)
              /\ res' = [op |-> "createSong", status |-> 201,
                         success |-> TRUE,
                         message |-> "Song created successfully",
                         data |-> [id |-> Len(songs') ] @@ NewSong]
  /\ UNCHANGED <<music, nextId, deleted, req, users, nodeEnv, pages, calls,
                 playlists>>

\* GET /
listSongs ==
  /\ Idle
  /\ LET total == Cardinality(ActiveSongs(songs))
         found == Window(Descending(ActiveSongs(songs)), 0, DefaultLimit)
     IN res' = [op |-> "listSongs", status |-> 200, success |-> TRUE,
                count |-> Len(found), total |-> total, page |-> 1,
                pages |-> Pages(total, DefaultLimit), data |-> found]
  /\ UNCHANGED <<music, nextId, deleted, req, users, nodeEnv, pages, calls,
                 songs, playlists>>

\* PUT /:id
updateSong ==
  /\ Idle
  /\ \E id \in SongIds, body \in SongUpdates :
       IF id \notin DOMAIN songs
         THEN /\ res' = [op |-> "updateSong", id |-> id, body |-> body,
                         status |-> 404, success |-> FALSE,
                         message |-> "Song not found"]
              /\ songs' = songs
         ELSE /\ songs' = IF "isActive" \in DOMAIN body
                            THEN [songs EXCEPT ![id].isActive = body.isActive]
                            ELSE songs
              /\ res' = [op |-> "updateSong", id |-> id, body |-> body,
                         status |-> 200, success |-> TRUE,
                         message |-> "Song updated successfully",
                         data |-> songs'[id]]
  /\ UNCHANGED <<music, nextId, deleted, req, users, nodeEnv, pages, calls,
                 playlists>>

\* DELETE /:id
deleteSong ==
  /\ Idle
  /\ \E id \in SongIds :
       IF id \notin DOMAIN songs
         THEN /\ res' = [op |-> "deleteSong", id |-> id, status |-> 404,
                         success |-> FALSE, message |-> "Song not found"]
              /\ songs' = songs
         ELSE /\ songs' = [songs EXCEPT ![id].isActive = FALSE]
              /\ res' = [op |-> "deleteSong", id |-> id, status |-> 200,
                         success |-> TRUE,
                         message |-> "Song deleted successfully"]
  /\ UNCHANGED <<music, nextId, deleted, req, users, nodeEnv, pages, calls,
                 playlists>>

\* GET /:id up to its second await: the findById, answered by the store
\* at this moment; without a document the request is answered 404.
getSongFindById ==
  \E id \in SongIds :
    IF id \notin DOMAIN songs
      THEN /\ Idle
           /\ res' = [op |-> "getSong", id |-> id, status |-> 404,
                      success |-> FALSE, message |-> "Song not found"]
           /\ UNCHANGED <<music, nextId, deleted, req, users, nodeEnv, pages,
                          calls, songs, playlists>>
      ELSE /\ Slots \ DOMAIN calls # {}
           /\ songs[id].playCount < MaxPlays
           /\ calls' = calls @@
                (FreeSlot :> [op |-> "getSong", id |-> id, doc |-> songs[id]])
           /\ UNCHANGED <<music, nextId, deleted, res, req, users, nodeEnv,
                          pages, songs, playlists>>

\* song.playCount += 1 on the document read, its save, and the response.
getSongSave ==
  /\ Idle
  /\ \E c \in DOMAIN calls :
       LET id == calls[c].id
           doc == [calls[c].doc EXCEPT !.playCount = @ + 1]
       IN /\ calls[c].op = "getSong"
          /\ songs' = [songs EXCEPT ![id] = SaveModified(songs[id], doc)]
          /\ calls' = [d \in DOMAIN calls \ {c} |-> calls[d]]
          /\ res' = [op |-> "getSong", id |-> id, status |-> 200,
                     success |-> TRUE, data |-> doc]
  /\ UNCHANGED <<music, nextId, deleted, req, users, nodeEnv, pages,
                 playlists>>

SongsNext ==
  \/ createSong
  \/ listSongs
  \/ updateSong
  \/ deleteSong
  \/ getSongFindById
  \/ getSongSave
  \/ endRequest

SongsSpec == Init /\ [][SongsNext]_vars

----------------------------------------------------------------------------
(* The playlists router (routes/playlists.ts): the songs of a playlist     *)

\* The entries a playlist is given.
MaxEntries == 3

\* The playlist that is created, and an id of none.
PlaylistIds == {1, 2}

\* songId as it arrives, text: two spellings of one ObjectId, another
\* ObjectId, and a text that spells none.
SongIdTexts == {<<"a", "b">>, <<"A", "B">>, <<"c", "c">>, <<"x", "-">>}

IsHex(c) ==
  IsDigit(c) \/ (Code(ToLowerChar(c)) >= 97 /\ Code(ToLowerChar(c)) =< 102)

\* The cast of the schema: a hex text of either case is an ObjectId.
IsObjectIdText(t) == \A i \in 1..Len(t) : IsHex(t[i])

\* Mutant of CastObjectId: the text is kept as it is spelt.
CastAsSpelt(t) == t

CastObjectId(t) == ToLower(t)

\* s.song.toString(): the hex of an ObjectId in lower case.
ObjectIdToString(oid) == ToLower(oid)

\* POST /: the playlist starts without songs.
createPlaylist ==
  /\ Idle
  /\ playlists = <<>>
  /\ playlists' = <<[songs |-> <<>>]>>
  /\ res' = [op |-> "createPlaylist", status |-> 201, success |-> TRUE,
             message |-> "Playlist created successfully",
             data |-> playlists'[1]]
  /\ UNCHANGED <<music, nextId, deleted, req, users, nodeEnv, pages, calls,
                 songs>>

\* POST /:id/songs
addSong ==
  /\ Idle
  /\ \E id \in PlaylistIds, songId \in SongIdTexts :
       LET failed(status, msg) ==
             [op |-> "addSong", id |-> id, songId |-> songId,
              status |-> status, success |-> FALSE, message |-> msg]
       IN IF id \notin DOMAIN playlists
            THEN /\ res' = failed(404, "Playlist not found")
                 /\ playlists' = playlists
          ELSE IF \E i \in 1..Len(playlists[id].songs) :
                    ObjectIdToString(playlists[id].songs[i].song) = songId
            THEN /\ res' = failed(400, "Song already exists in playlist")
                 /\ playlists' = playlists
          ELSE IF ~IsObjectIdText(songId)
            THEN /\ res' = failed(400, "Error adding song to playlist")
                 /\ playlists' = playlists
          ELSE /\ Len(playlists[id].songs) < MaxEntries
               /\ playlists' =
                    [playlists EXCEPT
                       ![id].songs =
                         Append(@, [song |-> CastObjectId(songId),
                                    order |-> Len(@) + 1])]
               /\ res' = [op |-> "addSong", id |-> id, songId |-> songId,
                          status |-> 200, success |-> TRUE,
                          message |-> "Song added to playlist successfully",
                          data |-> playlists'[id]]
  /\ UNCHANGED <<music, nextId, deleted, req, users, nodeEnv, pages, calls,
                 songs>>

\* songs.filter(s => s.song.toString() !== songId)
RECURSIVE FilterOut(_, _)
FilterOut(entries, songId) ==
  IF entries = <<>> THEN <<>>
  ELSE IF ObjectIdToString(Head(entries).song) # songId
    THEN <<Head(entries)>> \o FilterOut(Tail(entries), songId)
    ELSE FilterOut(Tail(entries), songId)

\* DELETE /:id/songs/:songId
removeSong ==
  /\ Idle
  /\ \E id \in PlaylistIds, songId \in SongIdTexts :
       IF id \notin DOMAIN playlists
         THEN /\ res' = [op |-> "removeSong", id |-> id, songId |-> songId,
                         status |-> 404, success |-> FALSE,
                         message |-> "Playlist not found"]
              /\ playlists' = playlists
         ELSE LET kept == FilterOut(playlists[id].songs, songId)
              IN /\ playlists' =
                      [playlists EXCEPT
                         ![id].songs =
                           [i \in 1..Len(kept) |->
                              [kept[i] EXCEPT !.order = i]]]
                 /\ res' = [op |-> "removeSong", id |-> id,
                            songId |-> songId, status |-> 200,
                            success |-> TRUE,
                            message |->
                              "Song removed from playlist successfully",
                            data |-> playlists'[id]]
  /\ UNCHANGED <<music, nextId, deleted, req, users, nodeEnv, pages, calls,
                 songs>>

PlaylistsNext ==
  \/ createPlaylist
  \/ addSong
  \/ removeSong
  \/ endRequest

PlaylistsSpec == Init /\ [][PlaylistsNext]_vars

----------------------------------------------------------------------------
(* The control flow of the handlers of musicController and userController:  *)
(* the awaits of each in the order of its code, each of which may reject    *)

Handlers ==
  {"createMusic", "getMusic", "getMusicById", "updateMusic", "deleteMusic",
   "searchMusic", "getMusicStatistics", "register", "login", "getProfile",
   "updateProfile", "logout"}

\* The awaits of a handler in the order of its try block.  early is the
\* status the handler answers and returns with when the answer of the
\* await takes its if branch (no document, a user that exists, a password
\* that does not match), 0 when the code has no such branch.
Await(op, early) == [op |-> op, early |-> early]

Awaits(h) ==
  CASE h = "createMusic" -> <<Await("save", 0)>>
    [] h = "getMusic" -> <<Await("find", 0), Await("countDocuments", 0)>>
    [] h = "getMusicById" -> <<Await("findById", 404)>>
    [] h = "updateMusic" -> <<Await("findByIdAndUpdate", 404)>>
    [] h = "deleteMusic" -> <<Await("findByIdAndDelete", 404)>>
    [] h = "searchMusic" -> <<Await("find", 0), Await("countDocuments", 0)>>
    [] h = "getMusicStatistics" ->
         [i \in 1..Len(StatsOps) |-> Await(StatsOps[i], 0)]
    [] h = "register" -> <<Await("findOne", 409), Await("save", 0)>>
    [] h = "login" -> <<Await("findOne", 401), Await("comparePassword", 401)>>
    [] h = "getProfile" -> <<Await("findById", 404)>>
    [] h = "updateProfile" ->
         <<Await("findOne", 409), Await("findByIdAndUpdate", 404)>>
    [] h = "logout" -> <<>>

\* The handlers that answer 400 and return before their first await: the
\* ones that read validationResult, and searchMusic without q.
ChecksInput(h) ==
  h \in {"createMusic", "updateMusic", "searchMusic", "register", "login",
         "updateProfile"}

\* throw new Error("Album art picture required") before the save.
ThrowsBeforeAwait(h) == h = "createMusic"

SuccessStatus(h) == IF h \in {"createMusic", "register"} THEN 201 ELSE 200

\* The errors an await rejects with; the second has no message.
NoError == [message |-> "none"]
StoreErrors == {[message |-> "store failure"], [message |-> ""]}

\* A handler that has just been entered.  pc is the await it is at, 0 once
\* it has returned; sent counts its res.json calls and nexts its
\* next(error) calls; issued are the awaits it has begun; thrown is what
\* its try block threw and handled what the error handler was given.
Entered(h) ==
  [h |-> h, pc |-> 1, issued |-> <<>>, sent |-> 0, nexts |-> 0,
   thrown |-> NoError, handled |-> NoError]

\* res.status(status).json(...); return
Responds(c) == [c EXCEPT !.pc = 0, !.sent = @ + 1]

\* Mutant of Catch: the catch block leaves the handler at the await that
\* rejected, which is begun again.
CatchRetries(c, err) == [c EXCEPT !.thrown = err]

\* catch (error) { console.error(...); next(error); }
Catch(c, err) ==
  [c EXCEPT !.pc = 0, !.nexts = @ + 1, !.thrown = err, !.handled = err]

\* errorHandler of server.ts for an error that is not the CORS one.
ErrorResponse(h, err) ==
  ErrorHandler(h, IF err.message = "" THEN "Internal server error"
                  ELSE err.message)

HandlerResponse(h, status) ==
  [op |-> h, status |-> status, success |-> status < 400]

\* A request reaches its handler, which runs up to its first await.
handlerEnters ==
  /\ Idle
  /\ calls = <<>>
  /\ \E h \in Handlers :
       \/ /\ ChecksInput(h)
          /\ calls' = <<Responds(Entered(h))>>
          /\ res' = HandlerResponse(h, 400)
       \/ /\ ThrowsBeforeAwait(h)
          /\ LET err == [message |-> "Album art picture required"]
             IN /\ calls' = <<Catch(Entered(h), err)>>
                /\ res' = ErrorResponse(h, err)
       \/ /\ Awaits(h) = <<>>
          /\ calls' = <<Responds(Entered(h))>>
          /\ res' = HandlerResponse(h, SuccessStatus(h))
       \/ /\ Awaits(h) # <<>>
          /\ calls' = <<Entered(h)>>
          /\ UNCHANGED res
  /\ UNCHANGED <<music, nextId, deleted, req, users, nodeEnv, pages, songs,
                 playlists>>

\* The await the handler is at is begun and settles: the handler goes on
\* to its next await or to its response, returns early, or lands in its
\* catch block.
handlerAwaits ==
  /\ calls # <<>>
  /\ calls[1].pc # 0
  /\ LET c == calls[1]
         aw == Awaits(c.h)[c.pc]
         begun == [c EXCEPT !.issued = Append(@, aw.op)]
     IN \/ /\ c.pc < Len(Awaits(c.h))
           /\ calls' = <<[begun EXCEPT !.pc = @ + 1]>>
           /\ UNCHANGED res
        \/ /\ c.pc = Len(Awaits(c.h))
           /\ calls' = <<Responds(begun)>>
           /\ res' = HandlerResponse(c.h, SuccessStatus(c.h))
        \/ /\ aw.early # 0
           /\ calls' = <<Responds(begun)>>
           /\ res' = HandlerResponse(c.h, aw.early)
        \/ \E err \in StoreErrors :
             /\ calls' = <<Catch(begun, err)>>
             /\ res' = ErrorResponse(c.h, err)
  /\ UNCHANGED <<music, nextId, deleted, req, users, nodeEnv, pages, songs,
                 playlists>>

\* The response is out and the request is over.
handlerReturns ==
  /\ calls # <<>>
  /\ calls[1].pc = 0
  /\ calls' = <<>>
  /\ res' = NoResponse
  /\ UNCHANGED <<music, nextId, deleted, req, users, nodeEnv, pages, songs,
                 playlists>>

FlowNext ==
  \/ handlerEnters
  \/ handlerAwaits
  \/ handlerReturns

\* NODE_ENV is any of its values, as in EnvSpec.
FlowSpec == EnvInit /\ [][FlowNext]_vars

----------------------------------------------------------------------------
(* Properties *)

ListOps == {"getMusic", "searchMusic"}
ReadOps == {"getMusic", "searchMusic", "getMusicById", "getMusicStatistics"}

IsListing == res.op \in ListOps /\ res.status = 200
IsStatistics == res.op = "getMusicStatistics" /\ res.status = 200

\* The filter a listing request stands for.
RequestedFilter ==
  IF res.op = "getMusic" THEN BuildFilter(res.req)
  ELSE [text |-> res.req.q, artist |-> <<>>, album |-> <<>>, genres |-> <<>>]

Counts(s) == [i \in 1..Len(s) |-> s[i].count]

RECURSIVE SumOver(_, _)
SumOver(S, m) ==
  IF S = {} THEN 0
  ELSE LET id == CHOOSE x \in S : TRUE
       IN Len(m[id].genres) + SumOver(S \ {id}, m)

\* C1: in every successful listing response of getMusic and searchMusic,
\* total is the number of records matching the filter, pages is the ceiling
\* of total / limit (the least n with n * limit >= total), and count is
\* min(limit, total - skip) when skip < total and 0 otherwise, where
\* skip = (page - 1) * limit.
C1_PaginationCounts ==
  IsListing =>
    LET limit == LimitOf(res.req)
        skip == (PageOf(res.req) - 1) * limit
    IN /\ res.total = Cardinality({id \in DOMAIN music :
                                    FilterMatches(RequestedFilter, music[id])})
       /\ res.pages * limit >= res.total
       /\ (res.pages - 1) * limit < res.total
       /\ res.count = Len(res.data)
       /\ res.count = IF skip < res.total
                        THEN Min(limit, res.total - skip) ELSE 0

\* A second page that is the partial last page of a two-page result.
C1_Witness ==
  /\ IsListing /\ res.op = "getMusic"
  /\ res.req.page = <<"2">> /\ res.req.limit = <<"1">>
  /\ res.total = 2 /\ res.pages = 2 /\ res.count = 1

NoFilter == [text |-> <<>>, artist |-> <<>>, album |-> <<>>, genres |-> <<>>]
FilterKeys == {"text", "artist", "album", "genres"}
Only(f, k) == [NoFilter EXCEPT ![k] = f[k]]
Without(f, k) == [f EXCEPT ![k] = <<>>]

\* C2: the filters of getMusic combine conjunctively: the records counted
\* and returned are exactly those that satisfy each supplied filter taken
\* alone, and dropping any one filter from the request never gives a
\* smaller total; a supplied search does not switch the other filters off.
C2_ConjunctiveFilters ==
  (res.op = "getMusic" /\ res.status = 200) =>
    LET f == BuildFilter(res.req)
        each == {id \in DOMAIN music :
                   \A k \in FilterKeys : FilterMatches(Only(f, k), music[id])}
    IN /\ res.total = Cardinality(each)
       /\ {res.data[i]._id : i \in 1..Len(res.data)} \subseteq each
       /\ \A k \in FilterKeys :
            res.total =< CountDocuments(music, Without(f, k))

\* A search that matches two records, narrowed to one by the genre filter.
C2_Witness ==
  /\ res.op = "getMusic" /\ res.status = 200
  /\ res.req.search # <<>> /\ res.req.genre # <<>>
  /\ res.total = 1
  /\ CountDocuments(music, Only(BuildFilter(res.req), "text")) = 2

\* C3: the counts of songsPerGenre sum to the number of (record, genre)
\* pairs, the sum over all records of the length of genres.
C3_GenreCountsSum ==
  IsStatistics =>
    SumSeq(Counts(res.data.songsPerGenre)) = SumOver(DOMAIN music, music)

\* Two records, one of them with two genres: three pairs.
C3_Witness ==
  /\ IsStatistics
  /\ Cardinality(DOMAIN music) = 2
  /\ SumSeq(Counts(res.data.songsPerGenre)) = 3

\* C4: totals.songs is the number of records, totals.artists the number of
\* distinct artist values, totals.albums the number of distinct album
\* values and totals.genres the size of the de-duplicated set of all genre
\* strings of all records (all 0 for an empty store).
C4_Totals ==
  IsStatistics =>
    LET t == res.data.totals IN
    /\ t.songs = Cardinality(DOMAIN music)
    /\ t.artists = Cardinality({music[id].artist : id \in DOMAIN music})
    /\ t.albums = Cardinality({music[id].album : id \in DOMAIN music})
    /\ t.genres = Cardinality(UNION {Range(music[id].genres) :
                                       id \in DOMAIN music})
    /\ DOMAIN music = {} =>
         t = [songs |-> 0, artists |-> 0, albums |-> 0, genres |-> 0]

\* The shape of the scenario of the specification: two records of one
\* artist on two albums, with genres [Rock] and [Rock, Pop].
C4_Witness ==
  /\ IsStatistics
  /\ res.data.totals = [songs |-> 2, artists |-> 1, albums |-> 2, genres |-> 2]
  /\ \E id \in DOMAIN music : music[id].genres = <<Rock, Pop>>

\* C5: artistStats has exactly one entry per distinct artist value, in
\* ascending order of the case-folded artist name; songCount is the number
\* of the artist's records and albumCount the number of distinct album
\* values among them, the size of the entry's albums set.
C5_ArtistStats ==
  IsStatistics =>
    LET ast == res.data.artistStats
        of(a) == {id \in DOMAIN music : music[id].artist = a}
    IN /\ {ast[i].artist : i \in 1..Len(ast)} =
            {music[id].artist : id \in DOMAIN music}
       /\ \A i, j \in 1..Len(ast) : i # j => ast[i].artist # ast[j].artist
       /\ \A i, j \in 1..Len(ast) :
            i < j => StrLeq(ToLower(ast[i].artist), ToLower(ast[j].artist))
       /\ \A i \in 1..Len(ast) :
            /\ ast[i].songCount = Cardinality(of(ast[i].artist))
            /\ ast[i].albums = {music[id].album : id \in of(ast[i].artist)}
            /\ ast[i].albumCount = Cardinality(ast[i].albums)

\* "aX" stands before "X" although "X" sorts first in binary order.
C5_Witness ==
  /\ IsStatistics
  /\ Len(res.data.artistStats) = 2
  /\ res.data.artistStats[1].artist = <<"a", "X">>
  /\ res.data.artistStats[2].artist = <<"X">>

\* C6: albumStats has exactly one entry per distinct (artist, album) pair
\* with songCount the number of records of that pair, in ascending order of
\* the case-folded album name alone, so that albums of one name by
\* different artists are separate entries.
C6_AlbumStats ==
  IsStatistics =>
    LET alb == res.data.albumStats
        key(e) == <<e.artist, e.album>>
    IN /\ {key(alb[i]) : i \in 1..Len(alb)} =
            {<<music[id].artist, music[id].album>> : id \in DOMAIN music}
       /\ \A i, j \in 1..Len(alb) : i # j => key(alb[i]) # key(alb[j])
       /\ \A i, j \in 1..Len(alb) :
            i < j => StrLeq(ToLower(alb[i].album), ToLower(alb[j].album))
       /\ \A i \in 1..Len(alb) :
            alb[i].songCount =
              Cardinality({id \in DOMAIN music :
                             /\ music[id].artist = alb[i].artist
                             /\ music[id].album = alb[i].album})

\* One album name under two artists gives two entries.
C6_Witness ==
  /\ IsStatistics
  /\ Len(res.data.albumStats) = 2
  /\ res.data.albumStats[1].album = res.data.albumStats[2].album
  /\ res.data.albumStats[1].artist # res.data.albumStats[2].artist

\* C7: songsPerGenre has one entry per distinct genre string and is in
\* descending order of count: of two consecutive entries the earlier has a
\* count at least that of the later.
C7_SongsPerGenreOrder ==
  IsStatistics =>
    LET spg == res.data.songsPerGenre IN
    /\ {spg[i]._id : i \in 1..Len(spg)} =
         UNION {Range(music[id].genres) : id \in DOMAIN music}
    /\ \A i, j \in 1..Len(spg) : i # j => spg[i]._id # spg[j]._id
    /\ \A i \in 1..(Len(spg) - 1) : spg[i].count >= spg[i + 1].count

\* The scenario of the specification: Rock 2, then Pop 1.
C7_Witness ==
  /\ IsStatistics
  /\ res.data.songsPerGenre =
       <<[_id |-> Rock, count |-> 2], [_id |-> Pop, count |-> 1]>>

\* The store without the records whose deletion has been acknowledged.
LiveStore == [id \in DOMAIN music \ deleted |-> music[id]]

\* C8: once deleteMusic(id) has answered success, the record is in no later
\* result: no listing or search returns it, getMusicById(id) answers 404,
\* every statistics report is the report of the store without it, and the
\* store keeps nothing under the id.
C8_DeletedStaysGone ==
  /\ deleted \cap DOMAIN music = {}
  /\ IsListing => \A i \in 1..Len(res.data) : res.data[i]._id \notin deleted
  /\ (res.op = "getMusicById" /\ res.id \in deleted) =>
       (res.status = 404 /\ ~res.success)
  /\ IsStatistics =>
       /\ res.data.totals.songs = Cardinality((1..(nextId - 1)) \ deleted)
       /\ res.data.totals = Totals(LiveStore)
       /\ res.data.songsPerGenre \in SongsPerGenreResults(LiveStore)
       /\ res.data.artistStats \in ArtistStatsResults(LiveStore)
       /\ res.data.albumStats \in AlbumStatsResults(LiveStore)

\* A record was deleted, another one is still there, and the deleted id is
\* asked for.
C8_Witness ==
  /\ deleted # {} /\ DOMAIN music # {}
  /\ res.op = "getMusicById" /\ res.id \in deleted /\ res.status = 404

\* s contains p as a substring, ignoring case.
ContainsIgnoringCase(s, p) ==
  \E start \in 0..(Len(s) - Len(p)) :
    \A j \in 1..Len(p) : ToLowerChar(p[j]) = ToLowerChar(s[start + j])

\* C9: in getMusic a record satisfies the artist (resp. album) filter iff
\* its artist (resp. album) contains the parameter as a substring ignoring
\* case, and the genre filter iff some element of its genres does.
C9_SubstringFilters ==
  (res.op = "getMusic" /\ res.status = 200) =>
    LET q == res.req
        sat(rec) ==
          /\ q.search # <<>> => TextMatch(q.search, rec)
          /\ q.artist # <<>> => ContainsIgnoringCase(rec.artist, q.artist)
          /\ q.album # <<>> => ContainsIgnoringCase(rec.album, q.album)
          /\ q.genre # <<>> =>
               \E i \in 1..Len(rec.genres) :
                 ContainsIgnoringCase(rec.genres[i], q.genre)
        expected == {id \in DOMAIN music : sat(music[id])}
    IN /\ res.total = Cardinality(expected)
       /\ {res.data[i]._id : i \in 1..Len(res.data)} \subseteq expected

\* C10: a read request (getMusicStatistics, getMusic, searchMusic,
\* getMusicById) leaves the store as it was: the same records with the same
\* fields, whatever the answer.
C10_ReadsLeaveStore ==
  [][res'.op \in ReadOps => (music' = music /\ nextId' = nextId)]_vars

\* A statistics report over a store that holds records.
C10_Witness ==
  /\ IsStatistics
  /\ DOMAIN music # {}
  /\ res.data.totals.songs = Cardinality(DOMAIN music)

ReportParts == {"totals", "songsPerGenre", "artistStats", "albumStats"}

\* C11: when any store operation of getMusicStatistics fails (the count,
\* one of the two distinct queries, one of the four aggregations), the
\* request fails as a whole: the answer is the error handler's, without
\* data, and a report that is sent is the report with all its parts.
C11_StatisticsAllOrNothing ==
  res.op = "getMusicStatistics" =>
    /\ req.fault # "none" =>
         /\ res.status = 500 /\ res.success = FALSE
         /\ "data" \notin DOMAIN res
    /\ res.success = TRUE =>
         /\ req.fault = "none"
         /\ DOMAIN res.data = ReportParts
         /\ DOMAIN res.data.totals = {"songs", "artists", "albums", "genres"}

\* The sixth operation, the artist aggregation, fails over a store that
\* holds records.
C11_Witness ==
  /\ res.op = "getMusicStatistics" /\ req.fault = "artistStats"
  /\ res.status = 500
  /\ DOMAIN music # {}

\* The value the fallback is said to give a paging parameter: the number
\* it spells when it spells a positive integer, the default otherwise.
PositiveOr(s, d) ==
  IF s # <<>> /\ (\A i \in 1..Len(s) : IsDigit(s[i])) /\ DigitsValue(s, 0) > 0
    THEN DigitsValue(s, 0) ELSE d

\* A listing request that reached the query builder while the store
\* answered.
IsPagedRequest ==
  /\ res.op \in ListOps /\ req.fault = "none"
  /\ res.op = "searchMusic" => res.req.q # <<>>

\* C12: in getMusic and searchMusic page falls back to 1 and limit to 10
\* whenever the supplied value is absent or does not spell a positive
\* integer (text that is no number, zero, a negative number): the page and
\* limit in effect are at least 1, skip is not negative, and the request is
\* answered with a listing, never with an error.
C12_PagingFallback ==
  IsPagedRequest =>
    LET page == PositiveOr(res.req.page, 1)
        limit == PositiveOr(res.req.limit, 10)
    IN /\ res.status = 200
       /\ res.page = page /\ res.page >= 1
       /\ res.count =< limit
       /\ res.pages * limit >= res.total

MusicOps ==
  {"createMusic", "getMusic", "searchMusic", "getMusicStatistics",
   "getMusicById", "updateMusic", "deleteMusic"}

\* C13: no music handler runs unless authenticate accepted the request: a
\* request to the music router without a bearer token, with a token that
\* fails verification, or with a token whose user id matches no user is
\* answered 401 by authenticate, no handler answers it, and the music
\* store is left as it was.
C13_AuthenticatedOnly ==
  [][(res' # NoResponse /\ req'.mount = "music") =>
       IF /\ req'.token.present /\ req'.token.verifies
          /\ req'.token.userId \in DOMAIN users
         THEN res'.op \in MusicOps
         ELSE /\ res'.op = "authenticate"
              /\ res'.status = 401 /\ res'.success = FALSE
              /\ music' = music /\ nextId' = nextId /\ deleted' = deleted]_vars

\* A delete of a stored record under a token that verifies but names a
\* user that does not exist: answered 401, the record still there.
C13_Witness ==
  /\ res.op = "authenticate" /\ res.status = 401
  /\ req.mount = "music" /\ req.method = "DELETE"
  /\ req.token.verifies /\ req.token.userId \notin DOMAIN users
  /\ req.path.oid \in DOMAIN music

ByIdOps == {"getMusicById", "updateMusic", "deleteMusic"}

\* C14: getMusicById, updateMusic and deleteMusic called with an id for
\* which the store holds no record answer 404 with success false and the
\* message 'Music not found', and leave the store as it was.
C14_UnknownIdNotFound ==
  [][(res'.op \in ByIdOps /\ req'.path.oid \notin DOMAIN music) =>
       /\ res'.status = 404 /\ res'.success = FALSE
       /\ res'.message = "Music not found"
       /\ music' = music]_vars

\* A required field of a create request is missing or malformed.
CreateMalformed(r) ==
  \/ r.body.title = <<>> \/ Len(r.body.title) > 200
  \/ r.body.artist = <<>> \/ Len(r.body.artist) > 100
  \/ r.body.album = <<>> \/ Len(r.body.album) > 100
  \/ r.body.genres = <<>>
  \/ \E i \in 1..Len(r.body.genres) : Trim(r.body.genres[i]) = <<>>
  \/ r.file = NoFile

\* A supplied field of an update request is malformed.
UpdateMalformed(r) ==
  \/ Len(r.body.title) > 200
  \/ Len(r.body.artist) > 100
  \/ Len(r.body.album) > 100
  \/ \E i \in 1..Len(r.body.genres) : Trim(r.body.genres[i]) = <<>>

\* C15: a createMusic request in which a required field (title, artist,
\* album, genres, albumArt) is missing or malformed, and an updateMusic
\* request with a malformed field, is answered 400 with success false and
\* the first failing validation message, and the store is unchanged.
C15_MalformedRejected ==
  [][(\/ res'.op = "createMusic" /\ CreateMalformed(req')
      \/ res'.op = "updateMusic" /\ UpdateMalformed(req')) =>
       /\ res'.status = 400 /\ res'.success = FALSE
       /\ "error" \in DOMAIN res'
       /\ music' = music]_vars

\* A create or update request that would store an entry outside the caps.
BreaksCaps(r) ==
  \/ Len(r.body.title) > 200
  \/ Len(r.body.artist) > 100
  \/ Len(r.body.album) > 100
  \/ r.method = "POST" /\ r.body.genres = <<>>

C17_PartialUpdate ==
  [][(res'.op = "updateMusic" /\ res'.status = 200) =>
       LET id == req'.path.oid
           b == req'.body
           old == music[id]
           new == music'[id]
       IN /\ DOMAIN music' = DOMAIN music
          /\ \A o \in DOMAIN music \ {id} : music'[o] = music[o]
          /\ new.title = IF b.title = <<>> THEN old.title ELSE Trim(b.title)
          /\ new.artist =
               IF b.artist = <<>> THEN old.artist ELSE Trim(b.artist)
          /\ new.album = IF b.album = <<>> THEN old.album ELSE Trim(b.album)
          /\ new.genres = IF b.genres = <<>> THEN old.genres ELSE b.genres
          /\ new.albumArt = IF req'.file = NoFile THEN old.albumArt
                            ELSE <<CorsOrigin, "/", req'.file>>
          /\ new.createdAt = old.createdAt]_vars

\* An update without a file that changed artist and album of one of two
\* records and kept its title and genres.
C17_Witness ==
  /\ res.op = "updateMusic" /\ res.status = 200
  /\ req.file = NoFile /\ req.body.title = <<>> /\ req.body.genres = <<>>
  /\ music[req.path.oid].album = req.body.album
  /\ music[req.path.oid].title # <<>>
  /\ Len(music[req.path.oid].genres) = 2
  /\ Cardinality(DOMAIN music) = 2

\* The responses that carry a message and nothing else on success.
MessageOnlyOps == {"deleteMusic", "logout"}

PagingFields == {"count", "total", "page", "pages"}

\* C19: the fields count, total, page and pages are present in a response
\* iff it is a successful response of getMusic or searchMusic: those carry
\* all four, and the responses of create, get-by-id, update, delete and
\* statistics and every error response carry none of them.
C19_PagingFieldsOnlyInListings ==
  res # NoResponse =>
    IF res.op \in ListOps /\ res.success = TRUE
      THEN PagingFields \subseteq DOMAIN res
      ELSE PagingFields \cap DOMAIN res = {}

\* A search that found one record.
C19_Witness ==
  /\ res.op = "searchMusic" /\ res.success = TRUE
  /\ PagingFields \subseteq DOMAIN res
  /\ res.total = 1 /\ res.count = 1

\* C20: a GET /music/search request that authenticate let pass is always
\* handled by searchMusic, never by getMusicById with the id 'search'; when
\* q is missing or empty the answer is 400 with success false and 'Search
\* query is required', given before the store is asked anything: it is the
\* same when the store's find would fail.
C20_SearchRoute ==
  (/\ res # NoResponse /\ res.op # "authenticate"
   /\ req.mount = "music" /\ req.method = "GET"
   /\ req.path.text = "search") =>
    /\ res.op = "searchMusic"
    /\ res.req.q = <<>> =>
         /\ res.status = 400 /\ res.success = FALSE
         /\ res.message = "Search query is required"
         /\ DOMAIN res = {"op", "req", "status", "success", "message"}

\* A search without q while the store's find would fail.
C20_Witness ==
  /\ res.op = "searchMusic" /\ res.req.q = <<>>
  /\ req.path.text = "search" /\ req.fault = "find"
  /\ res.status = 400
  /\ DOMAIN music # {}

SongCounts(s) == [i \in 1..Len(s) |-> s[i].songCount]
AlbumCounts(s) == [i \in 1..Len(s) |-> s[i].albumCount]

\* C27: in every report of getMusicStatistics, all of whose passes the
\* handler of this specification runs on one state of the collection, the
\* songCount of artistStats and the songCount of albumStats both sum to
\* totals.songs, artistStats has totals.artists entries, songsPerGenre has
\* totals.genres entries, the albumCount of artistStats sums to the number
\* of albumStats entries, and that number is at least totals.albums.
C27_SubReportsAgree ==
  IsStatistics =>
    LET t == res.data.totals
        ast == res.data.artistStats
        alb == res.data.albumStats
        spg == res.data.songsPerGenre
    IN /\ SumSeq(SongCounts(ast)) = t.songs
       /\ SumSeq(SongCounts(alb)) = t.songs
       /\ Len(ast) = t.artists
       /\ Len(spg) = t.genres
       /\ SumSeq(AlbumCounts(ast)) = Len(alb)
       /\ Len(alb) >= t.albums

\* One album name under two artists: two albumStats entries, one album.
C27_Witness ==
  /\ IsStatistics
  /\ res.data.totals.songs = 2
  /\ Len(res.data.albumStats) > res.data.totals.albums

\* The login requests that pass validation and do not name a stored user
\* with the password of that user.
LoginRefused(body, u) ==
  /\ ValidateLogin(body) = <<>>
  /\ \A id \in DOMAIN u :
       u[id].email = ToLower(body.email)
         => HashPassword(body.password) # u[id].password

\* C29: every login step whose request passes validation and is refused,
\* be it that the store knows no user of that email or that it knows one
\* whose password does not match, is answered by one and the same response,
\* 401 with success false and the message Invalid credentials and neither
\* data nor token, and leaves every user record as it was; so the same
\* request gets the identical answer from a store without the email and
\* from a store with the email and another password.
C29_LoginDoesNotReveal ==
  [][ (res'.op = "login" /\ LoginRefused(req'.body, users)) =>
        /\ res' = [op |-> "login", status |-> 401, success |-> FALSE,
                   message |-> "Invalid credentials"]
        /\ users' = users ]_vars

\* A login for a registered email with another password, refused.
C29_Witness ==
  /\ res.op = "login"
  /\ res.status = 401
  /\ \E id \in DOMAIN users :
       /\ users[id].email = req.body.email
       /\ users[id].password # HashPassword(req.body.password)

\* The requests whose handler issues the store operation that fails.
StoreFails ==
  /\ req.fault # "none"
  /\ res.op = "getMusicStatistics"
       \/ (res.op = "searchMusic" /\ res.req.q # <<>>)

\* C22 as stated: a failing store operation or aggregation is answered 500
\* with success false, and a 500 carries the stack in every mode but
\* production.
C22_StackOutsideProduction ==
  /\ StoreFails => res.status = 500 /\ res.success = FALSE
  /\ (res # NoResponse /\ res.status = 500) =>
       ("error" \in DOMAIN res <=> nodeEnv # "production")

\* C22: a failing store operation or aggregation is answered 500 with
\* success false and the message of the error, and a 500 carries the stack
\* exactly when NODE_ENV is development: never in production, and not in
\* any other mode either (test, or NODE_ENV not set).
C22_StackInDevelopmentOnly ==
  /\ StoreFails =>
       res.status = 500 /\ res.success = FALSE
         /\ res.message = "store failure"
  /\ (res # NoResponse /\ res.status = 500) =>
       ("error" \in DOMAIN res <=> nodeEnv = "development")

\* An aggregation fails on a development server: 500 with the stack.
C22_Witness ==
  /\ nodeEnv = "development"
  /\ res.op = "getMusicStatistics"
  /\ req.fault = "artistStats"
  /\ res.status = 500
  /\ "error" \in DOMAIN res

\* C26: once a client holds the pages 1..pages of one listing of getMusic,
\* all read from one state of the collection, every matching record stands
\* on exactly one of them, every page before the last holds limit records,
\* and every page it holds beyond pages is empty.
C26_PagesPartition ==
  pages # NoPages =>
    LET matching == MatchingIds(pages.store, BuildFilter(pages.q))
        limit == LimitOf(pages.q)
        last == (Cardinality(matching) + limit - 1) \div limit
        got == pages.got
    IN /\ (\A p \in 1..last : p \in DOMAIN got) =>
            /\ \A id \in matching :
                 Cardinality({p \in 1..last : id \in Range(got[p])}) = 1
            /\ \A p \in 1..(last - 1) : Len(got[p]) = limit
       /\ \A p \in DOMAIN got : p > last => got[p] = <<>>

UniqueUsers(u) ==
  \A i, j \in DOMAIN u :
    i # j => u[i].email # u[j].email /\ u[i].username # u[j].username

\* The email or the username of the request that arrives in slot c is
\* held by a user (for updateProfile: the username, by another user).
Taken(call, u) ==
  IF call.op = "register"
    THEN \E id \in DOMAIN u : \/ u[id].email = ToLower(call.body.email)
                              \/ u[id].username = call.body.username
    ELSE \E id \in DOMAIN u \ {call.userId} :
           u[id].username = call.body.username

SongServed == res = NoResponse /\ res'.op = "getSong" /\ res'.status = 200

\* C23: every GET /songs/:id that completes leaves the stored playCount of
\* its song exactly one higher than it found it at its save, so that N
\* completed requests raise it by N whatever the interleaving.
C23_PlaysNotLost ==
  [][ SongServed => songs'[res'.id].playCount = songs[res'.id].playCount + 1
    ]_vars

\* C30: DELETE /songs/:id keeps the record and sets its isActive to false;
\* every listing of GET /songs holds exactly the active songs and counts
\* them in total, so a deleted song is in none; GET /songs/:id of a deleted
\* song is answered 200 and stores the playCount it read plus one; no
\* record is ever removed; and isActive goes from false to true only in a
\* PUT /songs/:id whose body carries isActive true.
C30_SoftDelete ==
  [][ /\ DOMAIN songs \subseteq DOMAIN songs'
      /\ (res = NoResponse /\ res'.op = "deleteSong" /\ res'.status = 200) =>
           /\ DOMAIN songs' = DOMAIN songs
           /\ songs' = [songs EXCEPT ![res'.id].isActive = FALSE]
      /\ (res = NoResponse /\ res'.op = "listSongs") =>
           /\ Range(res'.data) = {id \in DOMAIN songs : songs[id].isActive}
           /\ res'.total = Cardinality(Range(res'.data))
           /\ res'.count = Len(res'.data)
      /\ DOMAIN calls' # DOMAIN calls /\ DOMAIN calls' \subseteq DOMAIN calls =>
           /\ SongServed
           /\ \E c \in DOMAIN calls \ DOMAIN calls' :
                /\ calls[c].id = res'.id
                /\ songs'[res'.id].playCount = calls[c].doc.playCount + 1
                /\ res'.data.playCount = calls[c].doc.playCount + 1
      /\ \A id \in DOMAIN songs :
           (~songs[id].isActive /\ songs'[id].isActive) =>
             /\ res'.op = "updateSong"
             /\ res'.id = id
             /\ "isActive" \in DOMAIN res'.body
             /\ res'.body.isActive ]_vars

\* A GET /songs/:id that read the song before it was deleted and saved it
\* afterwards: answered 200, the play counted, the song still deleted.
C30_Witness ==
  /\ res.op = "getSong"
  /\ res.status = 200
  /\ res.data.isActive
  /\ ~songs[res.id].isActive
  /\ songs[res.id].playCount = res.data.playCount

\* C28: a playlist that started empty and was changed by add-song and
\* remove-song requests one after the other holds no song twice, and the
\* order of the entry at position i is i.
C28_PlaylistOrdered ==
  \A p \in DOMAIN playlists :
    LET entries == playlists[p].songs
    IN /\ \A i, j \in 1..Len(entries) :
            i # j => entries[i].song # entries[j].song
       /\ \A i \in 1..Len(entries) : entries[i].order = i

\* The answer x of the k-th store query of getMusicStatistics is the one a
\* collection m gives.
PassReflects(k, x, m) ==
  CASE k = 1 -> x = Cardinality(DOMAIN m)
    [] k = 2 -> x = {m[id].artist : id \in DOMAIN m}
    [] k = 3 -> x = {m[id].album : id \in DOMAIN m}
    [] k = 4 -> x = Cardinality(UNION {Range(m[id].genres) : id \in DOMAIN m})
    [] k = 5 -> /\ Range(x) = GenreGroups(m)
                /\ Len(x) = Cardinality(GenreGroups(m))
    [] k = 6 -> /\ Range(x) = ArtistGroups(m)
                /\ Len(x) = Cardinality(ArtistGroups(m))
    [] k = 7 -> /\ Range(x) = AlbumGroups(m)
                /\ Len(x) = Cardinality(AlbumGroups(m))

\* C24: with createMusic, updateMusic and deleteMusic writes landing
\* between the store queries of one getMusicStatistics request, every
\* single query is still answered from the collection as it is at that
\* moment, the answers already gathered are kept as they were, and the
\* report is put together from the gathered answers; the report as a whole
\* need not agree with any one state of the collection (C24_Witness).
C24_EachPassOneState ==
  [][ /\ (calls' # <<>> /\ Len(calls'[1].got) # Len(Gathered)) =>
           LET k == Len(Gathered) + 1
           IN /\ Len(calls'[1].got) = k
              /\ SubSeq(calls'[1].got, 1, k - 1) = Gathered
              /\ PassReflects(k, calls'[1].got[k], music)
      /\ (calls # <<>> /\ calls' = <<>>) =>
           /\ Len(Gathered) = 6
           /\ res'.status = 200
           /\ res'.data.totals.songs = Gathered[1]
           /\ res'.data.totals.artists = Cardinality(Gathered[2])
           /\ res'.data.totals.albums = Cardinality(Gathered[3])
           /\ res'.data.totals.genres = Gathered[4]
           /\ res'.data.songsPerGenre = Gathered[5]
           /\ res'.data.artistStats = Gathered[6]
           /\ PassReflects(7, res'.data.albumStats, music) ]_vars

\* A report whose total of songs differs from the sum of the song counts
\* of its artists, and which lists more genres than its total of genres.
C24_Witness ==
  /\ res.op = "getMusicStatistics"
  /\ res.status = 200
  /\ res.data.totals.songs # SumSeq(SongCounts(res.data.artistStats))
  /\ res.data.totals.genres < Len(res.data.songsPerGenre)

\* C25: every request that reaches a handler of musicController or
\* userController ends with one outcome, either one response of the
\* handler or one call of next with the error; every await is begun at
\* most once and in the order of the code; once an await has rejected no
\* further await is begun and nothing else is sent; and the error handler
\* is given the very error that was thrown and answers 500 with its
\* message.
C25_OneOutcome ==
  [][ calls' # <<>> =>
        LET c == calls'[1]
        IN /\ c.sent + c.nexts =< 1
           /\ c.pc = 0 => c.sent + c.nexts = 1
           /\ Len(c.issued) =< Len(Awaits(c.h))
           /\ \A i \in 1..Len(c.issued) : c.issued[i] = Awaits(c.h)[i].op
           /\ c.thrown # NoError =>
                /\ c.pc = 0
                /\ c.sent = 0
                /\ c.nexts = 1
                /\ c.handled = c.thrown
                /\ res'.status = 500
                /\ res'.message = IF c.thrown.message = ""
                                    THEN "Internal server error"
                                    ELSE c.thrown.message
           /\ c.thrown = NoError =>
                /\ c.nexts = 0
                /\ c.handled = NoError
           /\ (calls # <<>> /\ calls[1].thrown # NoError) => c = calls[1] ]_vars

\* An updateProfile whose lookup was answered and whose update rejected:
\* both awaits begun once, the error passed to next, 500 with its message.
C25_Witness ==
  /\ calls # <<>>
  /\ calls[1].h = "updateProfile"
  /\ calls[1].issued = <<"findOne", "findByIdAndUpdate">>
  /\ calls[1].nexts = 1
  /\ calls[1].sent = 0
  /\ calls[1].handled = [message |-> "store failure"]
  /\ res.status = 500
  /\ res.message = "store failure"

====
